---------------------------- MODULE Spec2Model ----------------------------
(***************************************************************************)
(* Startup <-> investor fit-scoring engine (thesis_fit_pipeline_v2.py).    *)
(*                                                                         *)
(* Representation of Python values.  A Python value is a tagged record:    *)
(*   None            [t |-> "none"]                                        *)
(*   True / False    [t |-> "bool", v |-> TRUE / FALSE]                    *)
(*   int / float     [t |-> "num",  v |-> n]                               *)
(*   str             [t |-> "str",  v |-> "..."]                           *)
(*   list of str     [t |-> "list", v |-> << "...", ... >>]                *)
(* A dict is a TLA+ record / function on its string keys.                  *)
(*                                                                         *)
(* Numbers are integers in a per-field unit: money fields are in thousand  *)
(* USD, fraction fields (core_roles_covered_pct, moat.score,               *)
(* pitch_deck_completeness_score, defensibility_preference_min_score) are  *)
(* in hundredths, every other number is in its own unit.  Points, maximum  *)
(* points and weights are whole numbers; a value that the code rounds to   *)
(* four decimals (percent, weighted_contribution, the two fit scores,      *)
(* task_value) is held in units of 1/10000.                                *)
(***************************************************************************)
EXTENDS Integers, Sequences, FiniteSets, TLC

None == [t |-> "none"]
B(b) == [t |-> "bool", v |-> b]
N(n) == [t |-> "num", v |-> n]
S(s) == [t |-> "str", v |-> s]
L(q) == [t |-> "list", v |-> q]

IsNone(x) == x.t = "none"
IsTrue(x) == x.t = "bool" /\ x.v = TRUE
IsFalse(x) == x.t = "bool" /\ x.v = FALSE

\* dict.get(k) / dict.get(k, default)
Get(d, k) == IF k \in DOMAIN d THEN d[k] ELSE None
GetOr(d, k, dflt) == IF k \in DOMAIN d THEN d[k] ELSE dflt

Max2(a, b) == IF a >= b THEN a ELSE b
Min2(a, b) == IF a <= b THEN a ELSE b
Abs(a) == IF a >= 0 THEN a ELSE 0 - a

RECURSIVE SumSeq(_)
SumSeq(q) == IF q = <<>> THEN 0 ELSE Head(q) + SumSeq(Tail(q))

SeqToSet(q) == {q[i] : i \in 1..Len(q)}

-----------------------------------------------------------------------------
(* Core utils                                                              *)

\* str.strip().lower() and str.strip(), tabulated on the strings of the model
\* that they change; every other string of the model is already stripped and
\* lower-case and is returned as it is.
LowerStripTable ==
  << <<"US", "us">>, <<"India", "india">>, <<"Active", "active">>,
     <<" active ", "active">>, <<"SaaS", "saas">>, <<"SAFE", "safe">>,
     <<"FinTech", "fintech">>, <<"Both", "both">>, <<" ", "">>,
     <<"Series A", "series a">>, <<"Medium", "medium">>,
     <<"Priced Round", "priced round">> >>

StripTable == << <<" active ", "active">>, <<" ", "">> >>

Tabulated(tbl, s) ==
  IF \E i \in 1..Len(tbl) : tbl[i][1] = s
  THEN tbl[CHOOSE i \in 1..Len(tbl) : tbl[i][1] = s][2]
  ELSE s

\* norm_text on a str
norm_str(s) == Tabulated(LowerStripTable, s)

\* norm_text: None -> "", str -> stripped lower-case; returns a bare string
norm_text(x) == IF x.t = "str" THEN norm_str(x.v) ELSE ""

\* clean_text on a str
clean_str(s) == Tabulated(StripTable, s)

clean_text(x) == IF x.t = "str" THEN clean_str(x.v) ELSE ""

\* float(s) on the numeric strings of the model (after "," "$" "%" removal)
FloatStrTable == << <<"120", 120>>, <<"1", 1>>, <<"$500", 500>>, <<"0", 0>> >>

to_float(x) ==
  CASE x.t = "none" -> None
    [] x.t = "num" -> x
    [] x.t = "bool" -> N(IF x.v THEN 1 ELSE 0)
    [] x.t = "str" ->
         IF \E i \in 1..Len(FloatStrTable) : FloatStrTable[i][1] = clean_str(x.v)
         THEN N(FloatStrTable[CHOOSE i \in 1..Len(FloatStrTable) :
                                 FloatStrTable[i][1] = clean_str(x.v)][2])
         ELSE None
    [] OTHER -> None

\* int(v) truncates; the numbers of the model are whole in the unit of the
\* fields to_int is applied to
to_int(x) == to_float(x)

\* to_list: the elements of the result, as a sequence of bare strings
to_list(x) ==
  CASE x.t = "none" -> <<>>
    [] x.t = "list" -> x.v
    [] x.t = "str" -> IF clean_str(x.v) = "" THEN <<>> ELSE <<clean_str(x.v)>>
    [] OTHER -> <<>>

RECURSIVE unique_norm_from(_, _, _)
unique_norm_from(values, out, seen) ==
  IF values = <<>> THEN out
  ELSE LET tt == clean_str(Head(values))
           n == norm_str(tt)
       IN IF tt = "" \/ n \in seen
          THEN unique_norm_from(Tail(values), out, seen)
          ELSE unique_norm_from(Tail(values), Append(out, tt), seen \cup {n})

unique_norm_list(values) == unique_norm_from(values, <<>>, {})

is_missing(v) ==
  \/ v.t = "none"
  \/ (v.t = "str" /\ clean_str(v.v) = "")
  \/ (v.t = "list" /\ v.v = <<>>)

is_empty(v) ==
  \/ v.t = "none"
  \/ (v.t = "str" /\ clean_str(v.v) = "")
  \/ (v.t = "list" /\ Len(v.v) = 0)

list_norm_set(v) ==
  LET q == to_list(v)
  IN {norm_str(q[i]) : i \in {j \in 1..Len(q) : clean_str(q[j]) # ""}}

overlap(a, b) == Cardinality(list_norm_set(a) \cap list_norm_set(b)) > 0

count_overlap(a, b) == Cardinality(list_norm_set(a) \cap list_norm_set(b))

range_overlap(a_min, a_max, b_min, b_max) ==
  IF IsNone(a_min) \/ IsNone(a_max) \/ IsNone(b_min) \/ IsNone(b_max)
  THEN FALSE
  ELSE Max2(a_min.v, b_min.v) <= Min2(a_max.v, b_max.v)

abs_distance_to_range(value, lo, hi) ==
  IF IsNone(value) \/ IsNone(lo) \/ IsNone(hi) THEN None
  ELSE IF lo.v <= value.v /\ value.v <= hi.v THEN N(0)
  ELSE IF value.v < lo.v THEN N(lo.v - value.v)
  ELSE N(value.v - hi.v)

\* parse_percent, in hundredths: x in [0, 1] is kept, x in (1, 100] is divided
\* by 100, anything else is None.  PercentStrTable tabulates the strings.
PercentStrTable == << <<"85%", 85>>, <<"0.5", 50>>, <<"70", 70>> >>

parse_percent(x) ==
  LET h == CASE x.t = "num" -> x
             [] x.t = "bool" -> N(IF x.v THEN 100 ELSE 0)
             [] x.t = "str" ->
                  IF \E i \in 1..Len(PercentStrTable) : PercentStrTable[i][1] = clean_str(x.v)
                  THEN N(PercentStrTable[CHOOSE i \in 1..Len(PercentStrTable) :
                                           PercentStrTable[i][1] = clean_str(x.v)][2])
                  ELSE None
             [] OTHER -> None
  IN IF IsNone(h) THEN None
     ELSE IF 0 <= h.v /\ h.v <= 100 THEN h
     ELSE IF 100 < h.v /\ h.v <= 10000 THEN N(h.v \div 100)
     ELSE None

\* normalize_condition_key: strip, and collapse each run of whitespace to one
\* blank; tabulated on the keys of the model that it changes
ConditionKeyTable ==
  << <<"  default_non_focus_stage ", "default_non_focus_stage">>,
     <<"startup.stage_normalized  IN  investor.stage_focus_normalized",
       "startup.stage_normalized IN investor.stage_focus_normalized">> >>

normalize_condition_key(s) == Tabulated(ConditionKeyTable, s)

-----------------------------------------------------------------------------
(* Stage normalization                                                     *)

\* the characters of the stage strings of the model
StageChars ==
  << <<"pre_seed", <<"p", "r", "e", "_", "s", "e", "e", "d">>>>,
     <<"seed", <<"s", "e", "e", "d">>>>,
     <<"series_a", <<"s", "e", "r", "i", "e", "s", "_", "a">>>>,
     <<"series_b", <<"s", "e", "r", "i", "e", "s", "_", "b">>>>,
     <<"series_c_plus", <<"s", "e", "r", "i", "e", "s", "_", "c", "_", "p", "l", "u", "s">>>>,
     <<"preseed", <<"p", "r", "e", "s", "e", "e", "d">>>>,
     <<"pre-seed", <<"p", "r", "e", "-", "s", "e", "e", "d">>>>,
     <<"pre seed", <<"p", "r", "e", " ", "s", "e", "e", "d">>>>,
     <<"series a", <<"s", "e", "r", "i", "e", "s", " ", "a">>>>,
     <<"series-a", <<"s", "e", "r", "i", "e", "s", "-", "a">>>>,
     <<"series b", <<"s", "e", "r", "i", "e", "s", " ", "b">>>>,
     <<"series-b", <<"s", "e", "r", "i", "e", "s", "-", "b">>>>,
     <<"series c", <<"s", "e", "r", "i", "e", "s", " ", "c">>>>,
     <<"series d", <<"s", "e", "r", "i", "e", "s", " ", "d">>>>,
     <<"growth", <<"g", "r", "o", "w", "t", "h">>>>,
     <<"late seed", <<"l", "a", "t", "e", " ", "s", "e", "e", "d">>>>,
     <<"safe", <<"s", "a", "f", "e">>>>,
     <<"equity", <<"e", "q", "u", "i", "t", "y">>>>,
     <<"debt", <<"d", "e", "b", "t">>>>,
     <<"convertible", <<"c", "o", "n", "v", "e", "r", "t", "i", "b", "l", "e">>>>,
     <<"note", <<"n", "o", "t", "e">>>>,
     <<"priced", <<"p", "r", "i", "c", "e", "d">>>>,
     <<"priced round", <<"p", "r", "i", "c", "e", "d", " ", "r", "o", "u", "n", "d">>>>,
     <<"revenue share", <<"r", "e", "v", "e", "n", "u", "e", " ", "s", "h", "a", "r", "e">>>>,
     <<"ipo", <<"i", "p", "o">>>> >>

CharsOf(s) ==
  IF \E i \in 1..Len(StageChars) : StageChars[i][1] = s
  THEN StageChars[CHOOSE i \in 1..Len(StageChars) : StageChars[i][1] = s][2]
  ELSE <<s>>

\* Python's  k in s  on strings
Contains(k, s) ==
  LET kc == CharsOf(k)
      sc == CharsOf(s)
  IN \E i \in 1..(Len(sc) - Len(kc) + 1) : SubSeq(sc, i, i + Len(kc) - 1) = kc

\* STAGE_MAP, in insertion order
STAGE_MAP ==
  << <<"preseed", "pre_seed">>, <<"pre-seed", "pre_seed">>, <<"pre seed", "pre_seed">>,
     <<"seed", "seed">>,
     <<"series a", "series_a">>, <<"series-a", "series_a">>, <<"series_a", "series_a">>,
     <<"series b", "series_b">>, <<"series-b", "series_b">>, <<"series_b", "series_b">>,
     <<"series c", "series_c_plus">>, <<"series d", "series_c_plus">>,
     <<"growth", "series_c_plus">> >>

STAGE_ORDER ==
  << <<"pre_seed", 0>>, <<"seed", 1>>, <<"series_a", 2>>, <<"series_b", 3>>,
     <<"series_c_plus", 4>> >>

InStageOrder(s) == \E i \in 1..Len(STAGE_ORDER) : STAGE_ORDER[i][1] = s
StageIndex(s) == STAGE_ORDER[CHOOSE i \in 1..Len(STAGE_ORDER) : STAGE_ORDER[i][1] = s][2]

\* normalize_stage on a str: the mapped stage as a Python value, or None
normalize_stage(v) ==
  LET s == norm_text(v)
  IN IF s = "" THEN None
     ELSE IF \E i \in 1..Len(STAGE_MAP) : STAGE_MAP[i][1] = s
          THEN S(STAGE_MAP[CHOOSE i \in 1..Len(STAGE_MAP) : STAGE_MAP[i][1] = s][2])
     ELSE IF \E i \in 1..Len(STAGE_MAP) : Contains(STAGE_MAP[i][1], s)
          THEN LET first == CHOOSE i \in 1..Len(STAGE_MAP) :
                              /\ Contains(STAGE_MAP[i][1], s)
                              /\ \A j \in 1..(i - 1) : ~Contains(STAGE_MAP[j][1], s)
               IN S(STAGE_MAP[first][2])
     ELSE None

\* adjacent_stage(startup_stage, investor_stage_list)
adjacent_stage(startup_stage, investor_stage_list) ==
  IF startup_stage.t # "str" THEN FALSE
  ELSE IF ~InStageOrder(startup_stage.v) THEN FALSE
  ELSE \E k \in 1..Len(investor_stage_list) :
         LET st == investor_stage_list[k]
             ns == normalize_stage(S(st))
             n == IF IsNone(ns) THEN st ELSE ns.v
         IN InStageOrder(n) /\ Abs(StageIndex(n) - StageIndex(startup_stage.v)) = 1

strict_role_conflict(needs_lead, only_followers, investor_role) ==
  \/ (IsTrue(needs_lead) /\ investor_role = "follow")
  \/ (IsTrue(only_followers) /\ investor_role = "lead")

\* artifact_count_present(*vals)
artifact_present(v) ==
  CASE v.t = "bool" -> IF v.v THEN 1 ELSE 0
    [] v.t = "str" -> IF clean_str(v.v) # "" THEN 1 ELSE 0
    [] v.t = "none" -> 0
    [] OTHER -> 1

artifact_count_present(vals) == SumSeq([i \in 1..Len(vals) |-> artifact_present(vals[i])])

-----------------------------------------------------------------------------
(* Scoring engine                                                          *)

EmptyDict == <<>>

\* Python truthiness of a value
Truthy(x) ==
  CASE x.t = "none" -> FALSE
    [] x.t = "bool" -> x.v
    [] x.t = "num" -> x.v # 0
    [] x.t = "str" -> x.v # ""
    [] x.t = "list" -> x.v # <<>>
    [] OTHER -> TRUE

\*  x or 0  on an optional number
OrZero(x) == IF IsNone(x) THEN 0 ELSE x.v

\* RuleResult
rr(key, pts, mx, cond, reason) ==
  [key |-> key, points |-> pts, max_points |-> mx, matched_condition |-> cond,
   reason |-> reason]

to_geo_union(s) ==
  unique_norm_list(to_list(Get(s, "target_geographies"))
                   \o to_list(Get(s, "operating_geographies"))
                   \o to_list(Get(s, "hq_country")))

\* the eight gates of check_hard_gates, in the order of their if statements
gate_inactive(startup, investor) ==
  norm_text(Get(investor, "active_status")) # "active"

gate_check_size_reversed(startup, investor) ==
  LET i_max == Get(investor, "check_max_usd")
      s_min == Get(GetOr(startup, "raise", EmptyDict), "min_ticket_usd")
  IN ~IsNone(i_max) /\ ~IsNone(s_min) /\ to_float(i_max).v > to_float(s_min).v

gate_check_size(startup, investor) ==
  LET i_max == Get(investor, "check_max_usd")
      s_min == Get(GetOr(startup, "raise", EmptyDict), "min_ticket_usd")
  IN ~IsNone(i_max) /\ ~IsNone(s_min) /\ to_float(i_max).v < to_float(s_min).v

gate_geo_exclude(startup, investor) ==
  overlap(L(to_geo_union(startup)), Get(investor, "geo_exclude_normalized"))

gate_sector_exclude(startup, investor) ==
  overlap(Get(startup, "sectors_normalized"), Get(investor, "sector_exclude_normalized"))

gate_business_model(startup, investor) ==
  LET bm_primary == norm_text(Get(GetOr(startup, "business_model", EmptyDict), "primary"))
  IN bm_primary # "" /\ bm_primary \in list_norm_set(Get(investor, "business_models_exclude"))

gate_instrument(startup, investor) ==
  LET instr == norm_text(Get(GetOr(startup, "raise", EmptyDict), "instrument_normalized"))
  IN instr # "" /\ instr \in list_norm_set(Get(investor, "instrument_exclude_normalized"))

gate_regulatory(startup, investor) ==
  LET reg_domain == norm_text(Get(GetOr(startup, "risk", EmptyDict), "regulatory_domain"))
  IN reg_domain # "" /\ reg_domain \in list_norm_set(Get(investor, "regulatory_exclude"))

gate_geo_hard(startup, investor) ==
  /\ IsTrue(Get(investor, "geo_hard_constraint"))
  /\ ~overlap(L(to_geo_union(startup)), Get(investor, "geo_focus_normalized"))

\* fails.append(reason) when the gate's condition holds
AppendIf(fails, cond, reason) == IF cond THEN Append(fails, reason) ELSE fails

gate_fail_list(startup, investor) ==
  LET f1 == AppendIf(<<>>, gate_inactive(startup, investor),
                     "Investor is not active.")
      f2 == AppendIf(f1, gate_check_size(startup, investor),
                     "Investor max check is below startup minimum acceptable check.")
      f3 == AppendIf(f2, gate_geo_exclude(startup, investor),
                     "Startup falls in investor explicit geography exclusion.")
      f4 == AppendIf(f3, gate_sector_exclude(startup, investor),
                     "Startup sector explicitly excluded by investor.")
      f5 == AppendIf(f4, gate_business_model(startup, investor),
                     "Startup business model explicitly excluded by investor.")
      f6 == AppendIf(f5, gate_instrument(startup, investor),
                     "Startup instrument explicitly excluded by investor.")
      f7 == AppendIf(f6, gate_regulatory(startup, investor),
                     "Regulatory domain explicitly excluded by investor.")
      f8 == AppendIf(f7, gate_geo_hard(startup, investor),
                     "Investor has hard geography constraint and startup is outside allowed geography.")
  IN f8

\* variant: stops at the first gate that fails
check_hard_gates_first_only(startup, investor) ==
  LET fails == gate_fail_list(startup, investor)
  IN [eligible |-> Len(fails) = 0,
      fails |-> IF fails = <<>> THEN fails ELSE <<fails[1]>>]

\* check_hard_gates: (eligible, gate_fail_reasons)
check_hard_gates(startup, investor) ==
  LET fails == gate_fail_list(startup, investor)
  IN [eligible |-> Len(fails) = 0, fails |-> fails]

\* variant: the round is looked at before the stage
A1_stage_alignment_round_first(startup, investor) ==
  LET s_stage == Get(startup, "stage_normalized")
      s_round == Get(startup, "round_normalized")
      i_focus == to_list(Get(investor, "stage_focus_normalized"))
      i_excl == to_list(Get(investor, "stage_exclude_normalized"))
  IN IF Truthy(s_round) /\ norm_text(s_round) \in list_norm_set(L(i_focus))
     THEN rr("A1_stage_alignment", 26, 30,
            "startup.round_normalized IN investor.stage_focus_normalized",
            "Round aligns with stage focus.")
     ELSE IF Truthy(s_stage) /\ norm_text(s_stage) \in list_norm_set(L(i_focus))
     THEN rr("A1_stage_alignment", 30, 30,
            "startup.stage_normalized IN investor.stage_focus_normalized",
            "Stage directly in focus.")
     ELSE IF adjacent_stage(s_stage, i_focus)
     THEN rr("A1_stage_alignment", 20, 30,
            "adjacent_stage(startup.stage_normalized, investor.stage_focus_normalized)",
            "Adjacent stage to focus.")
     ELSE IF Truthy(s_stage) /\ norm_text(s_stage) \in list_norm_set(L(i_excl))
     THEN rr("A1_stage_alignment", 0, 30,
            "startup.stage_normalized IN investor.stage_exclude_normalized",
            "Stage is explicitly excluded.")
     ELSE IF is_missing(s_stage) \/ Len(i_focus) = 0
     THEN rr("A1_stage_alignment", 6, 30,
            "missing(startup.stage_normalized) OR empty(investor.stage_focus_normalized)",
            "Missing stage or empty investor stage focus.")
     ELSE rr("A1_stage_alignment", 10, 30,
            "default_non_focus_stage",
            "Stage not focused and not excluded.")

A1_stage_alignment(startup, investor) ==
  LET s_stage == Get(startup, "stage_normalized")
      s_round == Get(startup, "round_normalized")
      i_focus == to_list(Get(investor, "stage_focus_normalized"))
      i_excl == to_list(Get(investor, "stage_exclude_normalized"))
  IN IF Truthy(s_stage) /\ norm_text(s_stage) \in list_norm_set(L(i_focus))
     THEN rr("A1_stage_alignment", 30, 30,
            "startup.stage_normalized IN investor.stage_focus_normalized",
            "Stage directly in focus.")
     ELSE IF Truthy(s_round) /\ norm_text(s_round) \in list_norm_set(L(i_focus))
     THEN rr("A1_stage_alignment", 26, 30,
            "startup.round_normalized IN investor.stage_focus_normalized",
            "Round aligns with stage focus.")
     ELSE IF adjacent_stage(s_stage, i_focus)
     THEN rr("A1_stage_alignment", 20, 30,
            "adjacent_stage(startup.stage_normalized, investor.stage_focus_normalized)",
            "Adjacent stage to focus.")
     ELSE IF Truthy(s_stage) /\ norm_text(s_stage) \in list_norm_set(L(i_excl))
     THEN rr("A1_stage_alignment", 0, 30,
            "startup.stage_normalized IN investor.stage_exclude_normalized",
            "Stage is explicitly excluded.")
     ELSE IF is_missing(s_stage) \/ Len(i_focus) = 0
     THEN rr("A1_stage_alignment", 6, 30,
            "missing(startup.stage_normalized) OR empty(investor.stage_focus_normalized)",
            "Missing stage or empty investor stage focus.")
     ELSE rr("A1_stage_alignment", 10, 30,
            "default_non_focus_stage",
            "Stage not focused and not excluded.")

A2_check_size_compatibility_strict(startup, investor) ==
  LET sr == GetOr(startup, "raise", EmptyDict)
      s_min == to_float(Get(sr, "min_ticket_usd"))
      s_max == to_float(Get(sr, "max_ticket_usd"))
      i_min == to_float(Get(investor, "check_min_usd"))
      i_max == to_float(Get(investor, "check_max_usd"))
  IN IF range_overlap(s_min, s_max, i_min, i_max)
        /\ Max2(s_min.v, i_min.v) < Min2(s_max.v, i_max.v)
     THEN rr("A2_check_size_compatibility", 30, 30,
            "range_overlap([startup.raise.min_ticket_usd, startup.raise.max_ticket_usd], [investor.check_min_usd, investor.check_max_usd])",
            "Check ranges overlap.")
     ELSE rr("A2_check_size_compatibility", 8, 30,
            "default_low_coverage",
            "Low check coverage.")

A2_check_size_compatibility(startup, investor) ==
  LET sr == GetOr(startup, "raise", EmptyDict)
      s_min == to_float(Get(sr, "min_ticket_usd"))
      s_max == to_float(Get(sr, "max_ticket_usd"))
      s_target == to_float(Get(sr, "target_raise_usd"))
      i_min == to_float(Get(investor, "check_min_usd"))
      i_typ == to_float(Get(investor, "check_typical_usd"))
      i_max == to_float(Get(investor, "check_max_usd"))
  IN IF range_overlap(s_min, s_max, i_min, i_max)
     THEN rr("A2_check_size_compatibility", 30, 30,
            "range_overlap([startup.raise.min_ticket_usd, startup.raise.max_ticket_usd], [investor.check_min_usd, investor.check_max_usd])",
            "Check ranges overlap.")
     ELSE IF ~IsNone(i_typ) /\ ~IsNone(s_min) /\ ~IsNone(s_max) /\ s_min.v <= i_typ.v /\ i_typ.v <= s_max.v
     THEN rr("A2_check_size_compatibility", 26, 30,
            "investor.check_typical_usd BETWEEN startup.raise.min_ticket_usd AND startup.raise.max_ticket_usd",
            "Typical check fits startup acceptable ticket.")
     ELSE IF ~IsNone(i_typ) /\ ~IsNone(s_target) /\ 100 * i_typ.v >= s_target.v
     THEN rr("A2_check_size_compatibility", 22, 30,
            "investor.check_typical_usd >= 0.01 * startup.raise.target_raise_usd",
            "Typical check is meaningful relative to round.")
     ELSE IF ~IsNone(i_typ) /\ ~IsNone(s_target) /\ 200 * i_typ.v >= s_target.v
     THEN rr("A2_check_size_compatibility", 16, 30,
            "investor.check_typical_usd >= 0.005 * startup.raise.target_raise_usd",
            "Typical check is small but usable.")
     ELSE IF ~IsNone(i_max) /\ ~IsNone(s_min) /\ i_max.v < s_min.v
     THEN rr("A2_check_size_compatibility", 0, 30,
            "investor.check_max_usd < startup.raise.min_ticket_usd",
            "Investor cannot meet minimum ticket.")
     ELSE IF is_missing(s_target) \/ is_missing(i_max)
     THEN rr("A2_check_size_compatibility", 6, 30,
            "missing(startup.raise.target_raise_usd) OR missing(investor.check_max_usd)",
            "Missing raise target or investor max check.")
     ELSE rr("A2_check_size_compatibility", 8, 30,
            "default_low_coverage",
            "Low check coverage.")

A3_geography_jurisdiction_fit(startup, investor) ==
  LET tg == to_list(Get(startup, "target_geographies"))
      og == to_list(Get(startup, "operating_geographies"))
      hq == Get(startup, "hq_country")
      gf == to_list(Get(investor, "geo_focus_normalized"))
      geo_union == to_geo_union(startup)
  IN IF overlap(L(tg), L(gf))
     THEN rr("A3_geography_jurisdiction_fit", 25, 25,
            "overlap(startup.target_geographies, investor.geo_focus_normalized)",
            "Target geography overlaps investor focus.")
     ELSE IF overlap(L(og), L(gf))
     THEN rr("A3_geography_jurisdiction_fit", 21, 25,
            "overlap(startup.operating_geographies, investor.geo_focus_normalized)",
            "Operating geography overlaps investor focus.")
     ELSE IF Truthy(hq) /\ norm_text(hq) \in list_norm_set(L(gf))
     THEN rr("A3_geography_jurisdiction_fit", 18, 25,
            "startup.hq_country IN investor.geo_focus_normalized",
            "HQ country in investor geo focus.")
     ELSE IF IsTrue(Get(investor, "remote_ok"))
     THEN rr("A3_geography_jurisdiction_fit", 16, 25,
            "investor.remote_ok == true",
            "Investor open to remote/cross-geo deals.")
     ELSE IF IsTrue(Get(investor, "geo_hard_constraint")) /\ ~overlap(L(geo_union), L(gf))
     THEN rr("A3_geography_jurisdiction_fit", 0, 25,
            "investor.geo_hard_constraint == true AND NOT overlap(startup.target_geographies OR startup.operating_geographies OR startup.hq_country, investor.geo_focus_normalized)",
            "Hard geo constraint not met.")
     ELSE IF is_missing(hq) \/ Len(gf) = 0
     THEN rr("A3_geography_jurisdiction_fit", 5, 25,
            "missing(startup.hq_country) OR empty(investor.geo_focus_normalized)",
            "Missing HQ country or no geo focus.")
     ELSE rr("A3_geography_jurisdiction_fit", 9, 25,
            "default_outside_preference",
            "Outside primary geo preference.")

A4_deal_leadership_preference_fit(startup, investor) ==
  LET needs_lead == Get(GetOr(startup, "deal_preferences", EmptyDict), "needs_lead")
      only_followers == Get(GetOr(startup, "deal_preferences", EmptyDict), "only_followers")
      role == norm_text(Get(investor, "lead_or_follow"))
  IN IF IsTrue(needs_lead) /\ role \in {"lead", "both"}
     THEN rr("A4_deal_leadership_preference_fit", 20, 20,
            "startup.deal_preferences.needs_lead == true AND investor.lead_or_follow IN ['lead','both']",
            "Lead need is satisfied.")
     ELSE IF IsTrue(only_followers) /\ role \in {"follow", "both"}
     THEN rr("A4_deal_leadership_preference_fit", 18, 20,
            "startup.deal_preferences.only_followers == true AND investor.lead_or_follow IN ['follow','both']",
            "Follower preference is satisfied.")
     ELSE IF role = "both"
     THEN rr("A4_deal_leadership_preference_fit", 16, 20,
            "investor.lead_or_follow == 'both'",
            "Investor can lead or follow.")
     ELSE IF IsTrue(Get(investor, "lead_follow_strict")) /\ strict_role_conflict(needs_lead, only_followers, role)
     THEN rr("A4_deal_leadership_preference_fit", 0, 20,
            "investor.lead_follow_strict == true AND strict_role_conflict(startup.deal_preferences, investor.lead_or_follow)",
            "Strict lead/follow conflict.")
     ELSE IF IsNone(needs_lead) \/ is_missing(S(role))
     THEN rr("A4_deal_leadership_preference_fit", 5, 20,
            "missing(startup.deal_preferences.needs_lead) OR missing(investor.lead_or_follow)",
            "Missing lead/follow inputs.")
     ELSE rr("A4_deal_leadership_preference_fit", 9, 20,
            "default_role_friction",
            "Some role friction.")

A5_investment_instrument_fit(startup, investor) ==
  LET instr == norm_text(Get(GetOr(startup, "raise", EmptyDict), "instrument_normalized"))
      i_inc == to_list(Get(investor, "instrument_include_normalized"))
      i_exc == to_list(Get(investor, "instrument_exclude_normalized"))
  IN IF instr # "" /\ instr \in list_norm_set(L(i_inc))
     THEN rr("A5_investment_instrument_fit", 20, 20,
            "startup.raise.instrument_normalized IN investor.instrument_include_normalized",
            "Instrument in included list.")
     ELSE IF Len(i_inc) = 0
     THEN rr("A5_investment_instrument_fit", 14, 20,
            "empty(investor.instrument_include_normalized)",
            "No include constraints set.")
     ELSE IF instr # "" /\ instr \in list_norm_set(L(i_exc))
     THEN rr("A5_investment_instrument_fit", 0, 20,
            "startup.raise.instrument_normalized IN investor.instrument_exclude_normalized",
            "Instrument explicitly excluded.")
     ELSE IF is_missing(S(instr)) \/ Len(i_inc) = 0
     THEN rr("A5_investment_instrument_fit", 5, 20,
            "missing(startup.raise.instrument_normalized) OR empty(investor.instrument_include_normalized)",
            "Missing instrument info.")
     ELSE rr("A5_investment_instrument_fit", 8, 20,
            "default_unlisted_instrument",
            "Instrument not listed.")

B1_sector_focus_alignment(startup, investor) ==
  LET s_sec == GetOr(startup, "sectors_normalized", L(<<>>))
      s_sub == GetOr(startup, "subsectors_normalized", L(<<>>))
      i_sec == GetOr(investor, "sector_focus_normalized", L(<<>>))
      i_exc == GetOr(investor, "sector_exclude_normalized", L(<<>>))
      c_main == count_overlap(s_sec, i_sec)
      c_sub == count_overlap(s_sub, i_sec)
  IN IF c_main >= 2
     THEN rr("B1_sector_focus_alignment", 30, 30,
            "count_overlap(startup.sectors_normalized, investor.sector_focus_normalized) >= 2",
            "Strong multi-sector overlap.")
     ELSE IF c_main = 1
     THEN rr("B1_sector_focus_alignment", 24, 30,
            "count_overlap(startup.sectors_normalized, investor.sector_focus_normalized) == 1",
            "Single sector overlap.")
     ELSE IF c_sub >= 1
     THEN rr("B1_sector_focus_alignment", 18, 30,
            "count_overlap(startup.subsectors_normalized, investor.sector_focus_normalized) >= 1",
            "Subsector overlap.")
     ELSE IF overlap(s_sec, i_exc)
     THEN rr("B1_sector_focus_alignment", 0, 30,
            "overlap(startup.sectors_normalized, investor.sector_exclude_normalized)",
            "Sector explicitly excluded.")
     ELSE IF is_empty(s_sec) \/ is_empty(i_sec)
     THEN rr("B1_sector_focus_alignment", 6, 30,
            "missing(startup.sectors_normalized) OR empty(investor.sector_focus_normalized)",
            "Missing sector info.")
     ELSE rr("B1_sector_focus_alignment", 10, 30,
            "default_no_overlap",
            "No sector overlap.")

B2_business_model_fit(startup, investor) ==
  LET bm == GetOr(startup, "business_model", EmptyDict)
      primary == norm_text(Get(bm, "primary"))
      is_b2b == Get(bm, "is_b2b")
      is_b2c == Get(bm, "is_b2c")
      include == GetOr(investor, "business_models_include", L(<<>>))
      exclude == GetOr(investor, "business_models_exclude", L(<<>>))
      pref_b2b == Get(investor, "prefers_b2b")
      pref_b2c == Get(investor, "prefers_b2c")
  IN IF primary # "" /\ primary \in list_norm_set(include)
     THEN rr("B2_business_model_fit", 20, 20,
            "startup.business_model.primary IN investor.business_models_include",
            "Primary model explicitly included.")
     ELSE IF IsTrue(is_b2b) /\ IsTrue(pref_b2b)
     THEN rr("B2_business_model_fit", 17, 20,
            "startup.business_model.is_b2b == true AND investor.prefers_b2b == true",
            "B2B preference match.")
     ELSE IF IsTrue(is_b2c) /\ IsTrue(pref_b2c)
     THEN rr("B2_business_model_fit", 17, 20,
            "startup.business_model.is_b2c == true AND investor.prefers_b2c == true",
            "B2C preference match.")
     ELSE IF primary # "" /\ primary \in list_norm_set(exclude)
     THEN rr("B2_business_model_fit", 0, 20,
            "startup.business_model.primary IN investor.business_models_exclude",
            "Primary model excluded.")
     ELSE IF is_missing(S(primary))
     THEN rr("B2_business_model_fit", 5, 20,
            "missing(startup.business_model.primary)",
            "Missing business model.")
     ELSE rr("B2_business_model_fit", 8, 20,
            "default_model_misalignment",
            "Model does not align well.")

C1_traction_evidence_type(startup, investor) ==
  LET stage == norm_text(Get(startup, "stage_normalized"))
      tr == GetOr(startup, "traction", EmptyDict)
      arr == to_float(Get(tr, "arr_usd"))
      rev == to_float(Get(tr, "revenue_ttm_usd"))
      links == OrZero(to_int(Get(tr, "evidence_links_count")))
      primary == norm_text(Get(tr, "primary_signal"))
  IN IF stage \in {"seed", "series_a", "series_b"} /\ (OrZero(arr) > 0 \/ OrZero(rev) > 0) /\ links >= 1
     THEN rr("C1_traction_evidence_type", 30, 30,
            "startup.stage_normalized IN ['seed','series_a','series_b'] AND (startup.traction.arr_usd > 0 OR startup.traction.revenue_ttm_usd > 0) AND startup.traction.evidence_links_count >= 1",
            "Revenue evidence aligned with stage.")
     ELSE IF primary \in {"paying_customers", "revenue", "arr"} /\ links >= 1
     THEN rr("C1_traction_evidence_type", 26, 30,
            "startup.traction.primary_signal IN ['paying_customers','revenue','arr'] AND startup.traction.evidence_links_count >= 1",
            "Strong traction signal with evidence.")
     ELSE IF primary \in {"pilots", "lois"} /\ links >= 1
     THEN rr("C1_traction_evidence_type", 20, 30,
            "startup.traction.primary_signal IN ['pilots','lois'] AND startup.traction.evidence_links_count >= 1",
            "Early commercial signal with evidence.")
     ELSE IF primary \in {"waitlist", "engagement"}
     THEN rr("C1_traction_evidence_type", 12, 30,
            "startup.traction.primary_signal IN ['waitlist','engagement']",
            "Directional signal, weaker commercial proof.")
     ELSE IF primary \in {"none", "unknown"}
     THEN rr("C1_traction_evidence_type", 0, 30,
            "startup.traction.primary_signal IN ['none','unknown']",
            "No traction signal.")
     ELSE IF is_missing(S(primary))
     THEN rr("C1_traction_evidence_type", 6, 30,
            "missing(startup.traction.primary_signal)",
            "Missing traction primary signal.")
     ELSE rr("C1_traction_evidence_type", 10, 30,
            "default_other_signal",
            "Other traction signal.")

C2_traction_momentum(startup, investor) ==
  LET tr == GetOr(startup, "traction", EmptyDict)
      mom == to_float(Get(tr, "mom_growth_pct_3m_avg"))
      yoy == to_float(Get(tr, "yoy_growth_pct"))
  IN IF (~IsNone(mom) /\ mom.v >= 10) \/ (~IsNone(yoy) /\ yoy.v >= 50)
     THEN rr("C2_traction_momentum", 20, 20,
            "startup.traction.mom_growth_pct_3m_avg >= 10 OR startup.traction.yoy_growth_pct >= 50",
            "Strong growth momentum.")
     ELSE IF (~IsNone(mom) /\ mom.v >= 5) \/ (~IsNone(yoy) /\ yoy.v >= 20)
     THEN rr("C2_traction_momentum", 16, 20,
            "startup.traction.mom_growth_pct_3m_avg >= 5 OR startup.traction.yoy_growth_pct >= 20",
            "Good growth momentum.")
     ELSE IF ~IsNone(mom) /\ mom.v >= 0
     THEN rr("C2_traction_momentum", 10, 20,
            "startup.traction.mom_growth_pct_3m_avg >= 0",
            "Flat-to-positive momentum.")
     ELSE IF (~IsNone(mom) /\ mom.v < 0) \/ (~IsNone(yoy) /\ yoy.v < 0)
     THEN rr("C2_traction_momentum", 0, 20,
            "startup.traction.mom_growth_pct_3m_avg < 0 OR startup.traction.yoy_growth_pct < 0",
            "Negative momentum.")
     ELSE IF IsNone(mom) /\ IsNone(yoy)
     THEN rr("C2_traction_momentum", 4, 20,
            "missing(startup.traction.mom_growth_pct_3m_avg) AND missing(startup.traction.yoy_growth_pct)",
            "Missing momentum metrics.")
     ELSE rr("C2_traction_momentum", 8, 20,
            "default_momentum_mid",
            "Partial momentum evidence.")

C3_milestones_vs_next_stage(startup, investor) ==
  LET m == GetOr(startup, "milestones", EmptyDict)
      q == to_int(Get(m, "quantified_count"))
      linked == Get(m, "stage_linked")
  IN IF ~IsNone(q) /\ q.v >= 3 /\ IsTrue(linked)
     THEN rr("C3_milestones_vs_next_stage", 25, 25,
            "startup.milestones.quantified_count >= 3 AND startup.milestones.stage_linked == true",
            "Strong quantified milestones linked to stage.")
     ELSE IF ~IsNone(q) /\ q.v >= 2
     THEN rr("C3_milestones_vs_next_stage", 18, 25,
            "startup.milestones.quantified_count >= 2",
            "Good quantified milestones.")
     ELSE IF ~IsNone(q) /\ q.v = 1
     THEN rr("C3_milestones_vs_next_stage", 10, 25,
            "startup.milestones.quantified_count == 1",
            "Single quantified milestone.")
     ELSE IF ~IsNone(q) /\ q.v = 0
     THEN rr("C3_milestones_vs_next_stage", 0, 25,
            "startup.milestones.quantified_count == 0",
            "No quantified milestones.")
     ELSE IF IsNone(q)
     THEN rr("C3_milestones_vs_next_stage", 5, 25,
            "missing(startup.milestones.quantified_count)",
            "Missing milestones count.")
     ELSE rr("C3_milestones_vs_next_stage", 8, 25,
            "default_milestone_mid",
            "Partial milestone info.")

D1_team_completeness_vs_stage_graded(startup, investor) ==
  LET tm == GetOr(startup, "team", EmptyDict)
      coverage == parse_percent(Get(tm, "core_roles_covered_pct"))
  IN IF ~IsNone(coverage) /\ coverage.v >= 70
     THEN rr("D1_team_completeness_vs_stage", 18, 25,
            "startup.team.core_roles_covered_pct >= 0.7",
            "Good role coverage.")
     ELSE rr("D1_team_completeness_vs_stage", 5, 25,
            "missing(startup.team.core_roles_covered_pct)",
            "Missing role coverage metric.")

D1_team_completeness_vs_stage(startup, investor) ==
  LET tm == GetOr(startup, "team", EmptyDict)
      coverage == parse_percent(Get(tm, "core_roles_covered_pct"))
  IN IF ~IsNone(coverage) /\ coverage.v >= 90
     THEN rr("D1_team_completeness_vs_stage", 25, 25,
            "startup.team.core_roles_covered_pct >= 0.9",
            "Excellent role coverage.")
     ELSE IF ~IsNone(coverage) /\ coverage.v >= 70
     THEN rr("D1_team_completeness_vs_stage", 18, 25,
            "startup.team.core_roles_covered_pct >= 0.7",
            "Good role coverage.")
     ELSE IF ~IsNone(coverage) /\ coverage.v >= 40
     THEN rr("D1_team_completeness_vs_stage", 10, 25,
            "startup.team.core_roles_covered_pct >= 0.4",
            "Partial role coverage.")
     ELSE IF ~IsNone(coverage) /\ coverage.v < 40
     THEN rr("D1_team_completeness_vs_stage", 0, 25,
            "startup.team.core_roles_covered_pct < 0.4",
            "Weak role coverage.")
     ELSE rr("D1_team_completeness_vs_stage", 5, 25,
            "missing(startup.team.core_roles_covered_pct)",
            "Missing role coverage metric.")

D2_domain_execution_evidence(startup, investor) ==
  LET tm == GetOr(startup, "team", EmptyDict)
      exits == OrZero(to_int(Get(tm, "prior_exit_count")))
      years == to_float(Get(tm, "domain_years_avg"))
  IN IF exits >= 1 \/ (~IsNone(years) /\ years.v >= 8)
     THEN rr("D2_domain_execution_evidence", 30, 30,
            "startup.team.prior_exit_count >= 1 OR startup.team.domain_years_avg >= 8",
            "Strong founder execution proof.")
     ELSE IF ~IsNone(years) /\ years.v >= 5
     THEN rr("D2_domain_execution_evidence", 24, 30,
            "startup.team.domain_years_avg >= 5",
            "Strong domain depth.")
     ELSE IF ~IsNone(years) /\ years.v >= 3
     THEN rr("D2_domain_execution_evidence", 18, 30,
            "startup.team.domain_years_avg >= 3",
            "Moderate domain depth.")
     ELSE IF ~IsNone(years) /\ years.v >= 1
     THEN rr("D2_domain_execution_evidence", 10, 30,
            "startup.team.domain_years_avg >= 1",
            "Early domain experience.")
     ELSE IF ~IsNone(years) /\ years.v < 1
     THEN rr("D2_domain_execution_evidence", 4, 30,
            "startup.team.domain_years_avg < 1",
            "Limited domain depth.")
     ELSE rr("D2_domain_execution_evidence", 6, 30,
            "missing(startup.team.domain_years_avg)",
            "Missing domain-years metric.")

D3_coachability_signals(startup, investor) ==
  LET sg == GetOr(startup, "signals", EmptyDict)
      neg == Get(sg, "negative_reference_flag")
      resp_days == to_int(Get(sg, "responsiveness_days"))
      refs == OrZero(to_int(Get(sg, "reference_count")))
  IN IF IsTrue(neg)
     THEN rr("D3_coachability_signals", 0, 20,
            "startup.signals.negative_reference_flag == true",
            "Negative references present.")
     ELSE IF ~IsNone(resp_days) /\ resp_days.v <= 3 /\ refs >= 2
     THEN rr("D3_coachability_signals", 20, 20,
            "startup.signals.responsiveness_days <= 3 AND startup.signals.reference_count >= 2",
            "Fast response with strong references.")
     ELSE IF ~IsNone(resp_days) /\ resp_days.v <= 7 /\ refs >= 1
     THEN rr("D3_coachability_signals", 15, 20,
            "startup.signals.responsiveness_days <= 7 AND startup.signals.reference_count >= 1",
            "Good responsiveness and references.")
     ELSE IF ~IsNone(resp_days) /\ resp_days.v <= 14
     THEN rr("D3_coachability_signals", 9, 20,
            "startup.signals.responsiveness_days <= 14",
            "Moderate responsiveness.")
     ELSE rr("D3_coachability_signals", 4, 20,
            "missing(startup.signals.responsiveness_days)",
            "Missing coachability timing signals.")

E1_regulatory_exposure_vs_tolerance(startup, investor) ==
  LET r == GetOr(startup, "risk", EmptyDict)
      reg_domain == norm_text(Get(r, "regulatory_domain"))
      reg_level == to_int(Get(r, "regulatory_risk_level"))
      reg_tol == to_int(Get(investor, "regulatory_tolerance_level"))
      mitigate == Get(r, "mitigation_plan_present")
  IN IF reg_domain # "" /\ reg_domain \in list_norm_set(Get(investor, "regulatory_exclude"))
     THEN rr("E1_regulatory_exposure_vs_tolerance", 0, 30,
            "startup.risk.regulatory_domain IN investor.regulatory_exclude",
            "Regulatory domain excluded.")
     ELSE IF ~IsNone(reg_level) /\ ~IsNone(reg_tol) /\ reg_level.v <= reg_tol.v
     THEN rr("E1_regulatory_exposure_vs_tolerance", 30, 30,
            "startup.risk.regulatory_risk_level <= investor.regulatory_tolerance_level",
            "Regulatory risk within tolerance.")
     ELSE IF ~IsNone(reg_level) /\ ~IsNone(reg_tol) /\ reg_level.v = reg_tol.v + 1 /\ IsTrue(mitigate)
     THEN rr("E1_regulatory_exposure_vs_tolerance", 20, 30,
            "startup.risk.regulatory_risk_level == investor.regulatory_tolerance_level + 1 AND startup.risk.mitigation_plan_present == true",
            "Slightly above tolerance but mitigated.")
     ELSE IF ~IsNone(reg_level) /\ ~IsNone(reg_tol) /\ reg_level.v > reg_tol.v
     THEN rr("E1_regulatory_exposure_vs_tolerance", 8, 30,
            "startup.risk.regulatory_risk_level > investor.regulatory_tolerance_level",
            "Above tolerance.")
     ELSE rr("E1_regulatory_exposure_vs_tolerance", 5, 30,
            "missing(startup.risk.regulatory_risk_level) OR missing(investor.regulatory_tolerance_level)",
            "Missing regulatory risk inputs.")

E2_defensibility_vs_preference(startup, investor) ==
  LET mt == GetOr(startup, "moat", EmptyDict)
      moat_score == parse_percent(Get(mt, "score"))
      min_pref == OrZero(to_float(Get(investor, "defensibility_preference_min_score")))
  IN IF ~IsNone(moat_score) /\ moat_score.v >= Max2(80, min_pref)
     THEN rr("E2_defensibility_vs_preference", 25, 25,
            "startup.moat.score >= max(0.8, investor.defensibility_preference_min_score)",
            "High defensibility.")
     ELSE IF ~IsNone(moat_score) /\ moat_score.v >= Max2(60, min_pref)
     THEN rr("E2_defensibility_vs_preference", 18, 25,
            "startup.moat.score >= max(0.6, investor.defensibility_preference_min_score)",
            "Good defensibility.")
     ELSE IF ~IsNone(moat_score) /\ moat_score.v >= 40
     THEN rr("E2_defensibility_vs_preference", 10, 25,
            "startup.moat.score >= 0.4",
            "Moderate defensibility.")
     ELSE IF ~IsNone(moat_score) /\ moat_score.v < 40
     THEN rr("E2_defensibility_vs_preference", 4, 25,
            "startup.moat.score < 0.4",
            "Low defensibility.")
     ELSE rr("E2_defensibility_vs_preference", 5, 25,
            "missing(startup.moat.score)",
            "Missing moat score.")

E3_time_horizon_risk_concentration(startup, investor) ==
  LET r == GetOr(startup, "risk", EmptyDict)
      tli == to_float(Get(r, "time_to_liquidity_years"))
      hmin == to_float(Get(investor, "time_horizon_min_years"))
      hmax == to_float(Get(investor, "time_horizon_max_years"))
      s_cap == to_int(Get(r, "capital_intensity_level"))
      i_cap == to_int(Get(investor, "capital_intensity_tolerance_level"))
      dist == abs_distance_to_range(tli, hmin, hmax)
  IN IF ~IsNone(tli) /\ ~IsNone(hmin) /\ ~IsNone(hmax) /\ ~IsNone(s_cap) /\ ~IsNone(i_cap) /\ hmin.v <= tli.v /\ tli.v <= hmax.v /\ s_cap.v <= i_cap.v
     THEN rr("E3_time_horizon_risk_concentration", 20, 20,
            "startup.risk.time_to_liquidity_years BETWEEN investor.time_horizon_min_years AND investor.time_horizon_max_years AND startup.risk.capital_intensity_level <= investor.capital_intensity_tolerance_level",
            "Time horizon and capital intensity fit.")
     ELSE IF ~IsNone(dist) /\ dist.v <= 2
     THEN rr("E3_time_horizon_risk_concentration", 14, 20,
            "abs_distance_to_range(startup.risk.time_to_liquidity_years, [investor.time_horizon_min_years, investor.time_horizon_max_years]) <= 2",
            "Near horizon range.")
     ELSE IF ~IsNone(s_cap) /\ ~IsNone(i_cap) /\ s_cap.v > i_cap.v
     THEN rr("E3_time_horizon_risk_concentration", 6, 20,
            "startup.risk.capital_intensity_level > investor.capital_intensity_tolerance_level",
            "Capital intensity above tolerance.")
     ELSE IF ~IsNone(dist) /\ dist.v > 2
     THEN rr("E3_time_horizon_risk_concentration", 6, 20,
            "abs_distance_to_range(startup.risk.time_to_liquidity_years, [investor.time_horizon_min_years, investor.time_horizon_max_years]) > 2",
            "Outside time horizon.")
     ELSE rr("E3_time_horizon_risk_concentration", 4, 20,
            "missing(startup.risk.time_to_liquidity_years) OR missing(investor.time_horizon_min_years)",
            "Missing time-horizon inputs.")

F1_pitch_deck_availability(startup, investor) ==
  LET a == GetOr(startup, "artifacts", EmptyDict)
      deck == Get(a, "pitch_deck_uploaded")
      deck_score == to_float(Get(a, "pitch_deck_completeness_score"))
  IN IF IsTrue(deck) /\ ~IsNone(deck_score) /\ deck_score.v >= 80
     THEN rr("F1_pitch_deck_availability", 20, 20,
            "startup.artifacts.pitch_deck_uploaded == true AND startup.artifacts.pitch_deck_completeness_score >= 0.8",
            "Deck is strong and ready.")
     ELSE IF IsTrue(deck) /\ ~IsNone(deck_score) /\ deck_score.v >= 60
     THEN rr("F1_pitch_deck_availability", 15, 20,
            "startup.artifacts.pitch_deck_uploaded == true AND startup.artifacts.pitch_deck_completeness_score >= 0.6",
            "Deck is usable.")
     ELSE IF IsTrue(deck)
     THEN rr("F1_pitch_deck_availability", 9, 20,
            "startup.artifacts.pitch_deck_uploaded == true",
            "Deck exists.")
     ELSE IF IsTrue(Get(investor, "requires_pitch_deck")) /\ IsFalse(deck)
     THEN rr("F1_pitch_deck_availability", 0, 20,
            "investor.requires_pitch_deck == true AND startup.artifacts.pitch_deck_uploaded == false",
            "Deck required but missing.")
     ELSE rr("F1_pitch_deck_availability", 4, 20,
            "missing(startup.artifacts.pitch_deck_uploaded)",
            "Deck availability unknown.")

F2_data_room_artifacts(startup, investor) ==
  LET a == GetOr(startup, "artifacts", EmptyDict)
      c == artifact_count_present(<<Get(a, "data_room_url"), Get(a, "cap_table_uploaded"),
                                    Get(a, "financial_model_uploaded"),
                                    Get(a, "customer_metrics_uploaded"),
                                    Get(a, "pitch_deck_uploaded")>>)
  IN IF c = 5
     THEN rr("F2_data_room_artifacts", 35, 35,
            "artifact_count_present(startup.artifacts.data_room_url, startup.artifacts.cap_table_uploaded, startup.artifacts.financial_model_uploaded, startup.artifacts.customer_metrics_uploaded, startup.artifacts.pitch_deck_uploaded) == 5",
            "Complete diligence pack.")
     ELSE IF c = 4
     THEN rr("F2_data_room_artifacts", 28, 35,
            "artifact_count_present(startup.artifacts.data_room_url, startup.artifacts.cap_table_uploaded, startup.artifacts.financial_model_uploaded, startup.artifacts.customer_metrics_uploaded, startup.artifacts.pitch_deck_uploaded) == 4",
            "Near-complete diligence pack.")
     ELSE IF c = 3
     THEN rr("F2_data_room_artifacts", 20, 35,
            "artifact_count_present(startup.artifacts.data_room_url, startup.artifacts.cap_table_uploaded, startup.artifacts.financial_model_uploaded, startup.artifacts.customer_metrics_uploaded, startup.artifacts.pitch_deck_uploaded) == 3",
            "Moderate diligence pack.")
     ELSE IF c \in {1, 2}
     THEN rr("F2_data_room_artifacts", 10, 35,
            "artifact_count_present(startup.artifacts.data_room_url, startup.artifacts.cap_table_uploaded, startup.artifacts.financial_model_uploaded, startup.artifacts.customer_metrics_uploaded, startup.artifacts.pitch_deck_uploaded) IN [1,2]",
            "Limited artifacts.")
     ELSE IF IsTrue(Get(investor, "requires_data_room")) /\ c = 0
     THEN rr("F2_data_room_artifacts", 0, 35,
            "investor.requires_data_room == true AND artifact_count_present(startup.artifacts.data_room_url, startup.artifacts.cap_table_uploaded, startup.artifacts.financial_model_uploaded, startup.artifacts.customer_metrics_uploaded, startup.artifacts.pitch_deck_uploaded) == 0",
            "Data room required but absent.")
     ELSE rr("F2_data_room_artifacts", 6, 35,
            "missing(startup.artifacts.data_room_url) AND missing(startup.artifacts.cap_table_uploaded)",
            "Missing core diligence artifacts.")

F3_timeline_compatibility(startup, investor) ==
  LET d == GetOr(startup, "deal_preferences", EmptyDict)
      ds == to_int(Get(investor, "decision_speed_days"))
      tl == to_int(Get(d, "timeline_to_close_days"))
  IN IF ~IsNone(ds) /\ ~IsNone(tl) /\ ds.v <= tl.v
     THEN rr("F3_timeline_compatibility", 20, 20,
            "investor.decision_speed_days <= startup.deal_preferences.timeline_to_close_days",
            "Decision speed fits close timeline.")
     ELSE IF ~IsNone(ds) /\ ~IsNone(tl) /\ ds.v <= tl.v + 14
     THEN rr("F3_timeline_compatibility", 14, 20,
            "investor.decision_speed_days <= startup.deal_preferences.timeline_to_close_days + 14",
            "Slight timeline stretch.")
     ELSE IF ~IsNone(ds) /\ ~IsNone(tl) /\ ds.v <= tl.v + 45
     THEN rr("F3_timeline_compatibility", 8, 20,
            "investor.decision_speed_days <= startup.deal_preferences.timeline_to_close_days + 45",
            "Moderate timeline friction.")
     ELSE IF ~IsNone(ds) /\ ~IsNone(tl) /\ ds.v > tl.v + 45
     THEN rr("F3_timeline_compatibility", 0, 20,
            "investor.decision_speed_days > startup.deal_preferences.timeline_to_close_days + 45",
            "Major timeline mismatch.")
     ELSE rr("F3_timeline_compatibility", 4, 20,
            "missing(investor.decision_speed_days) OR missing(startup.deal_preferences.timeline_to_close_days)",
            "Missing timeline inputs.")

score_deal_compatibility(startup, investor) ==
  [ A1_stage_alignment |-> A1_stage_alignment(startup, investor),
    A2_check_size_compatibility |-> A2_check_size_compatibility(startup, investor),
    A3_geography_jurisdiction_fit |-> A3_geography_jurisdiction_fit(startup, investor),
    A4_deal_leadership_preference_fit |-> A4_deal_leadership_preference_fit(startup, investor),
    A5_investment_instrument_fit |-> A5_investment_instrument_fit(startup, investor) ]

score_sector_business_model_fit(startup, investor) ==
  [ B1_sector_focus_alignment |-> B1_sector_focus_alignment(startup, investor),
    B2_business_model_fit |-> B2_business_model_fit(startup, investor) ]

score_traction_vs_thesis(startup, investor) ==
  [ C1_traction_evidence_type |-> C1_traction_evidence_type(startup, investor),
    C2_traction_momentum |-> C2_traction_momentum(startup, investor),
    C3_milestones_vs_next_stage |-> C3_milestones_vs_next_stage(startup, investor) ]

score_founder_team_fit(startup, investor) ==
  [ D1_team_completeness_vs_stage |-> D1_team_completeness_vs_stage(startup, investor),
    D2_domain_execution_evidence |-> D2_domain_execution_evidence(startup, investor),
    D3_coachability_signals |-> D3_coachability_signals(startup, investor) ]

score_risk_regulatory_alignment(startup, investor) ==
  [ E1_regulatory_exposure_vs_tolerance |-> E1_regulatory_exposure_vs_tolerance(startup, investor),
    E2_defensibility_vs_preference |-> E2_defensibility_vs_preference(startup, investor),
    E3_time_horizon_risk_concentration |-> E3_time_horizon_risk_concentration(startup, investor) ]

score_diligence_process_fit(startup, investor) ==
  [ F1_pitch_deck_availability |-> F1_pitch_deck_availability(startup, investor),
    F2_data_room_artifacts |-> F2_data_room_artifacts(startup, investor),
    F3_timeline_compatibility |-> F3_timeline_compatibility(startup, investor) ]

-----------------------------------------------------------------------------
(* Rubric integration                                                      *)
(*                                                                         *)
(* A rubric is None or a dict.  rubric["categories"] is an ordered dict,   *)
(* held as a sequence of <<category_key, cat_cfg>>; cat_cfg is a record    *)
(* whose entries are Python values (maximum_point, weight) or rule lists   *)
(* [t |-> "rules", v |-> << rule, ... >>]; a rule is a record with the     *)
(* optional keys maximum_points and options, options an ordered dict held  *)
(* as a sequence of <<condition_string, value>>.                           *)

\* the index of the last pair of an ordered dict's pairs whose key is k: a key
\* given twice keeps its last value
LastKeyIndex(pairs, k) ==
  CHOOSE i \in 1..Len(pairs) :
    /\ pairs[i][1] = k
    /\ \A j \in (i + 1)..Len(pairs) : pairs[j][1] # k

\* the same for the options of a rule, whose keys are normalized first
LastOptionIndex(options, k) ==
  CHOOSE i \in 1..Len(options) :
    /\ normalize_condition_key(options[i][1]) = k
    /\ \A j \in (i + 1)..Len(options) : normalize_condition_key(options[j][1]) # k

rubric_categories(rubric) ==
  IF rubric.t # "dict" THEN <<>> ELSE GetOr(rubric.v, "categories", <<>>)

\* norm_options = {normalize_condition_key(k): to_float(v) for k, v in options.items()}
norm_options(options) ==
  [k \in {normalize_condition_key(options[i][1]) : i \in 1..Len(options)} |->
     to_float(options[LastOptionIndex(options, k)][2])]

\* is cat_cfg[subkey] a non-empty list whose first element is a rule dict
is_rule_list(arr) == arr.t = "rules" /\ arr.v # <<>>

subrule_entry(cat_key, arr) ==
  LET rule == arr.v[1]
  IN [category_key |-> cat_key,
      maximum_points |-> to_float(Get(rule, "maximum_points")),
      options |-> norm_options(GetOr(rule, "options", <<>>))]

\* build_rubric_index: category_meta and subrules (a later category's entry for
\* a sub-rule key replaces an earlier one)
build_rubric_index(rubric) ==
  LET cats == rubric_categories(rubric)
      has(i, subkey) == subkey \in DOMAIN cats[i][2] /\ is_rule_list(cats[i][2][subkey])
      subkeys == UNION {{sk \in DOMAIN cats[i][2] : has(i, sk)} : i \in 1..Len(cats)}
      last(subkey) == CHOOSE i \in 1..Len(cats) :
                        has(i, subkey) /\ \A j \in (i + 1)..Len(cats) : ~has(j, subkey)
  IN [category_meta |->
        [ck \in {cats[i][1] : i \in 1..Len(cats)} |->
           LET cfg == cats[LastKeyIndex(cats, ck)][2]
           IN [max_point |-> to_float(Get(cfg, "maximum_point")),
               weight |-> to_float(Get(cfg, "weight"))]],
      subrules |->
        [sk \in subkeys |-> subrule_entry(cats[last(sk)][1], cats[last(sk)][2][sk])]]

\* variant: the rubric's maximum is applied, its option points are not
apply_rubric_max_only(rr_obj, subrules) ==
  IF rr_obj.key \notin DOMAIN subrules THEN rr_obj
  ELSE LET mx == subrules[rr_obj.key].maximum_points
       IN [rr_obj EXCEPT !.max_points = IF IsNone(mx) THEN rr_obj.max_points ELSE mx.v]

\* apply_rubric_points on one RuleResult
apply_rubric_to_rule(rr_obj, subrules) ==
  IF rr_obj.key \notin DOMAIN subrules THEN rr_obj
  ELSE LET sub == subrules[rr_obj.key]
           options == sub.options
           condition_norm == normalize_condition_key(rr_obj.matched_condition)
           points == IF condition_norm \in DOMAIN options
                     THEN options[condition_norm].v ELSE rr_obj.points
           mx == sub.maximum_points
           max_points == IF IsNone(mx) THEN rr_obj.max_points ELSE mx.v
       IN [key |-> rr_obj.key, points |-> points, max_points |-> max_points,
           matched_condition |-> rr_obj.matched_condition, reason |-> rr_obj.reason]

apply_rubric_points(rule_results, rubric_index) ==
  [key \in DOMAIN rule_results |->
     apply_rubric_to_rule(rule_results[key], rubric_index.subrules)]

\* round(n / d, 4) in units of 1/10000 is RoundDiv(n * 10000, d): the nearest
\* whole number to n / d, a tie going to the even one (n >= 0, d > 0)
RoundDiv(n, d) ==
  LET q == n \div d
      r == n % d
  IN IF 2 * r < d THEN q
     ELSE IF 2 * r > d THEN q + 1
     ELSE IF q % 2 = 0 THEN q ELSE q + 1

Scale == 10000

\* the keys of a category's rule results, in the order the scorer inserts them
RECURSIVE SumPoints(_, _)
SumPoints(rule_results, keys) ==
  IF keys = {} THEN 0
  ELSE LET k == CHOOSE x \in keys : TRUE
       IN rule_results[k].points + SumPoints(rule_results, keys \ {k})

\* variant: percent is left a fraction, not multiplied by 100
calc_category_summary_fraction(rule_results, max_point, weight) ==
  LET raw_points == SumPoints(rule_results, DOMAIN rule_results)
  IN [raw_points |-> raw_points,
      max_point |-> max_point,
      percent |-> IF max_point > 0 THEN RoundDiv(raw_points * Scale, max_point) ELSE 0,
      weight |-> weight,
      weighted_contribution |->
        IF max_point > 0 THEN RoundDiv(raw_points * weight * Scale, max_point) ELSE 0,
      subcategories |->
        [k \in DOMAIN rule_results |->
           [points |-> rule_results[k].points,
            max_points |-> rule_results[k].max_points,
            matched_condition |-> rule_results[k].matched_condition,
            reason |-> rule_results[k].reason]]]

calc_category_summary(rule_results, max_point, weight) ==
  LET raw_points == SumPoints(rule_results, DOMAIN rule_results)
  IN [raw_points |-> raw_points,
      max_point |-> max_point,
      percent |-> IF max_point > 0 THEN RoundDiv(raw_points * 100 * Scale, max_point) ELSE 0,
      weight |-> weight,
      weighted_contribution |->
        IF max_point > 0 THEN RoundDiv(raw_points * weight * Scale, max_point) ELSE 0,
      subcategories |->
        [k \in DOMAIN rule_results |->
           [points |-> rule_results[k].points,
            max_points |-> rule_results[k].max_points,
            matched_condition |-> rule_results[k].matched_condition,
            reason |-> rule_results[k].reason]]]

CATEGORY_KEYS ==
  <<"deal_compatibility", "sector_business_model_fit", "traction_vs_thesis_bar",
    "founder_team_fit", "risk_regulatory_alignment", "diligence_process_fit">>

\* variant: weights that sum to more than 100 (53 for 35)
default_cat_meta_heavy ==
  [deal_compatibility |-> [max_point |-> 125, weight |-> 53],
   sector_business_model_fit |-> [max_point |-> 50, weight |-> 20],
   traction_vs_thesis_bar |-> [max_point |-> 75, weight |-> 15],
   founder_team_fit |-> [max_point |-> 75, weight |-> 20],
   risk_regulatory_alignment |-> [max_point |-> 75, weight |-> 5],
   diligence_process_fit |-> [max_point |-> 75, weight |-> 5]]

\* default meta (fallback)
default_cat_meta ==
  [deal_compatibility |-> [max_point |-> 125, weight |-> 35],
   sector_business_model_fit |-> [max_point |-> 50, weight |-> 20],
   traction_vs_thesis_bar |-> [max_point |-> 75, weight |-> 15],
   founder_team_fit |-> [max_point |-> 75, weight |-> 20],
   risk_regulatory_alignment |-> [max_point |-> 75, weight |-> 5],
   diligence_process_fit |-> [max_point |-> 75, weight |-> 5]]

\* override from rubric
rubric_cat_meta(rubric) ==
  LET cats == rubric_categories(rubric)
      cfg(ck) == IF \E i \in 1..Len(cats) : cats[i][1] = ck
                 THEN cats[LastKeyIndex(cats, ck)][2] ELSE EmptyDict
  IN [ck \in DOMAIN default_cat_meta |->
        LET mp == to_float(Get(cfg(ck), "maximum_point"))
            wt == to_float(Get(cfg(ck), "weight"))
        IN [max_point |-> IF IsNone(mp) THEN default_cat_meta[ck].max_point ELSE mp.v,
            weight |-> IF IsNone(wt) THEN default_cat_meta[ck].weight ELSE wt.v]]

score_category(ck, startup, investor) ==
  CASE ck = "deal_compatibility" -> score_deal_compatibility(startup, investor)
    [] ck = "sector_business_model_fit" -> score_sector_business_model_fit(startup, investor)
    [] ck = "traction_vs_thesis_bar" -> score_traction_vs_thesis(startup, investor)
    [] ck = "founder_team_fit" -> score_founder_team_fit(startup, investor)
    [] ck = "risk_regulatory_alignment" -> score_risk_regulatory_alignment(startup, investor)
    [] ck = "diligence_process_fit" -> score_diligence_process_fit(startup, investor)

\* startup_obj.get("startup", startup_obj)
Unwrap(obj, key) == IF key \in DOMAIN obj THEN obj[key] ELSE obj

fit_score_sum(summaries) ==
  SumSeq([i \in 1..Len(CATEGORY_KEYS) |-> summaries[CATEGORY_KEYS[i]].weighted_contribution])

\* the notes of a Match Result
NOTES ==
  <<"Startup and investor normalization are separate artifacts.",
    "Same startup_thesis_fit.json can be matched with multiple investor_thesis_fit.json files.",
    "First-match-in-order logic is preserved per subcategory.",
    "Points/weights are loaded from rubric when available.">>

\* variant: the final score is not forced to 0 for an ineligible pair
fit_score_final_uncapped(eligible, fit_score_if_eligible) == fit_score_if_eligible

\* fit_score_final = 0.0 if not eligible else fit_score_if_eligible
fit_score_final(eligible, fit_score_if_eligible) ==
  IF ~eligible THEN 0 ELSE fit_score_if_eligible

\* variant: the version label is derived from the clock as well
result_meta_version_by_clock(startup_obj, investor_obj, now) ==
  [matching_version |-> <<"manual_deterministic_v2", now>>,
   generated_at_utc |-> now,
   startup_ref |-> GetOr(GetOr(startup_obj, "metadata", EmptyDict), "source_files", EmptyDict),
   investor_ref |-> Get(GetOr(investor_obj, "metadata", EmptyDict), "source_file")]

\* the leading fields of a Match Result; now is what now_utc_iso returns
result_meta(startup_obj, investor_obj, now) ==
  [matching_version |-> "manual_deterministic_v2",
   generated_at_utc |-> now,
   startup_ref |-> GetOr(GetOr(startup_obj, "metadata", EmptyDict), "source_files", EmptyDict),
   investor_ref |-> Get(GetOr(investor_obj, "metadata", EmptyDict), "source_file")]

manual_match(startup_obj, investor_obj, rubric, now) ==
  LET startup == Unwrap(startup_obj, "startup")
      investor == Unwrap(investor_obj, "investor")
      Summaries(rubric_index, cat_meta) ==
        [ck \in DOMAIN default_cat_meta |->
           calc_category_summary(
             apply_rubric_points(score_category(ck, startup, investor), rubric_index),
             cat_meta[ck].max_point, cat_meta[ck].weight)]
      Result(gates, summaries, fit_score_if_eligible) ==
        result_meta(startup_obj, investor_obj, now) @@
        [eligible |-> gates.eligible,
         gate_fail_reasons |-> gates.fails,
         raw_points_total |->
           SumSeq([i \in 1..Len(CATEGORY_KEYS) |-> summaries[CATEGORY_KEYS[i]].raw_points]),
         raw_points_max_total |->
           SumSeq([i \in 1..Len(CATEGORY_KEYS) |-> summaries[CATEGORY_KEYS[i]].max_point]),
         fit_score_if_eligible_0_to_100 |-> fit_score_if_eligible,
         fit_score_0_to_100 |-> fit_score_final(gates.eligible, fit_score_if_eligible),
         category_breakdown |-> summaries,
         notes |-> NOTES]
      WithFit(gates, summaries) == Result(gates, summaries, fit_score_sum(summaries))
  IN WithFit(check_hard_gates(startup, investor),
             Summaries(build_rubric_index(rubric), rubric_cat_meta(rubric)))

-----------------------------------------------------------------------------
(* Tasks                                                                   *)
(*                                                                         *)
(* A task holds task_title, task_points, task_value, task_type and, for a  *)
(* score_improvement task, subcategory_key and category_key.  task_id,     *)
(* task_description, task_done and field_hints are texts and constants     *)
(* derived from the title and are left out.                                *)

\* TASK_LIBRARY: sub-rule key -> task_title, in the order of the sub-rules
TASK_LIBRARY ==
  << <<"A1_stage_alignment", "Align stage narrative with investor mandate">>,
     <<"A2_check_size_compatibility", "Restructure check-size ask">>,
     <<"A3_geography_jurisdiction_fit", "Improve geo fit for this investor">>,
     <<"A4_deal_leadership_preference_fit", "Clarify lead/follow expectations">>,
     <<"A5_investment_instrument_fit", "Match funding instrument">>,
     <<"B1_sector_focus_alignment", "Strengthen thesis-sector overlap">>,
     <<"B2_business_model_fit", "Improve business model fit messaging">>,
     <<"C1_traction_evidence_type", "Upgrade traction evidence quality">>,
     <<"C2_traction_momentum", "Improve growth momentum">>,
     <<"C3_milestones_vs_next_stage", "Define quantified next-stage milestones">>,
     <<"D1_team_completeness_vs_stage", "Close team gaps for current stage">>,
     <<"D2_domain_execution_evidence", "Increase execution credibility">>,
     <<"D3_coachability_signals", "Improve responsiveness and references">>,
     <<"E1_regulatory_exposure_vs_tolerance", "Reduce regulatory risk mismatch">>,
     <<"E2_defensibility_vs_preference", "Strengthen defensibility narrative">>,
     <<"E3_time_horizon_risk_concentration", "Align timeline and capital intensity">>,
     <<"F1_pitch_deck_availability", "Make deck investor-ready">>,
     <<"F2_data_room_artifacts", "Complete data room package">>,
     <<"F3_timeline_compatibility", "Align fundraising timeline">> >>

\* gate_task_template's mapping: failure reason -> task title
GATE_TITLES ==
  << <<"Investor is not active.",
       "Switch to active investor">>,
     <<"Investor max check is below startup minimum acceptable check.",
       "Fix minimum ticket mismatch">>,
     <<"Startup falls in investor explicit geography exclusion.",
       "Remove geography exclusion conflict">>,
     <<"Startup sector explicitly excluded by investor.",
       "Resolve sector exclusion">>,
     <<"Startup business model explicitly excluded by investor.",
       "Resolve business model exclusion">>,
     <<"Startup instrument explicitly excluded by investor.",
       "Use accepted investment instrument">>,
     <<"Regulatory domain explicitly excluded by investor.",
       "Address regulatory domain exclusion">>,
     <<"Investor has hard geography constraint and startup is outside allowed geography.",
       "Satisfy hard geography constraint">> >>

HasKey(tbl, k) == \E i \in 1..Len(tbl) : tbl[i][1] = k
Lookup(tbl, k) == tbl[CHOOSE i \in 1..Len(tbl) : tbl[i][1] = k][2]

gate_task_template(reason) ==
  [task_title |-> IF HasKey(GATE_TITLES, reason) THEN Lookup(GATE_TITLES, reason)
                  ELSE "Resolve hard-gate mismatch",
   task_points |-> 100,
   task_value |-> 0,
   task_type |-> "hard_gate"]

gate_tasks_undivided(result) ==
  LET gate_fails == result.gate_fail_reasons
      unlock_value_total == result.fit_score_if_eligible_0_to_100
  IN [i \in 1..Len(gate_fails) |->
        [gate_task_template(clean_str(gate_fails[i])) EXCEPT !.task_value = unlock_value_total]]

\* the hard_gate tasks (lines 1838-1845)
gate_tasks(result) ==
  LET gate_fails == result.gate_fail_reasons
      unlock_value_total == result.fit_score_if_eligible_0_to_100
      per_gate_unlock == RoundDiv(unlock_value_total, Max2(Len(gate_fails), 1))
  IN [i \in 1..Len(gate_fails) |->
        [gate_task_template(clean_str(gate_fails[i])) EXCEPT !.task_value = per_gate_unlock]]

subrule_task_raw_gap(cat_key, cat_val, subkey) ==
  LET sv == cat_val.subcategories[subkey]
      gap == Max2(sv.max_points - sv.points, 0)
  IN IF gap <= 0 THEN <<>>
     ELSE << [task_title |-> IF HasKey(TASK_LIBRARY, subkey) THEN Lookup(TASK_LIBRARY, subkey)
                             ELSE "Improve " \o subkey,
              task_points |-> gap,
              task_value |-> gap * Scale,
              task_type |-> "score_improvement",
              subcategory_key |-> subkey,
              category_key |-> cat_key] >>

\* the score_improvement task of one sub-rule, <<>> when it has no gap
subrule_task(cat_key, cat_val, subkey) ==
  LET cat_max == IF cat_val.max_point = 0 THEN 1 ELSE cat_val.max_point
      cat_weight == cat_val.weight
      sv == cat_val.subcategories[subkey]
      gap == Max2(sv.max_points - sv.points, 0)
      weighted_gap == RoundDiv(gap * cat_weight * Scale, cat_max)
  IN IF gap <= 0 THEN <<>>
     ELSE << [task_title |-> IF HasKey(TASK_LIBRARY, subkey) THEN Lookup(TASK_LIBRARY, subkey)
                             ELSE "Improve " \o subkey,
              task_points |-> gap,
              task_value |-> weighted_gap,
              task_type |-> "score_improvement",
              subcategory_key |-> subkey,
              category_key |-> cat_key] >>

RECURSIVE Flatten(_)
Flatten(qq) == IF qq = <<>> THEN <<>> ELSE Head(qq) \o Flatten(Tail(qq))

\* the sub-rule keys of a category summary, in the order the scorer inserted them
subrule_keys_in_order(cat_val) ==
  LET present == {i \in 1..Len(TASK_LIBRARY) : TASK_LIBRARY[i][1] \in DOMAIN cat_val.subcategories}
      nth[k \in 1..Cardinality(present)] ==
        CHOOSE i \in present : Cardinality({j \in present : j < i}) = k - 1
  IN [k \in 1..Cardinality(present) |-> TASK_LIBRARY[nth[k]][1]]

\* the score_improvement tasks (lines 1847-1888)
category_tasks(cat_key, cat_val) ==
  LET ks == subrule_keys_in_order(cat_val)
  IN Flatten([k \in 1..Len(ks) |-> subrule_task(cat_key, cat_val, ks[k])])

\* breakdown.items() runs over the categories in the order manual_match
\* inserted them
score_tasks(result) ==
  LET breakdown == result.category_breakdown
  IN Flatten([i \in 1..Len(CATEGORY_KEYS) |->
                IF CATEGORY_KEYS[i] \in DOMAIN breakdown
                THEN category_tasks(CATEGORY_KEYS[i], breakdown[CATEGORY_KEYS[i]])
                ELSE <<>>])

candidate_tasks(result) == gate_tasks(result) \o score_tasks(result)

\* best_by_title, an ordered dict held as the sequence of its values
RECURSIVE best_by_title(_, _)
best_by_title(tasks, best) ==
  IF tasks = <<>> THEN best
  ELSE LET tk == Head(tasks)
           same == {i \in 1..Len(best) : best[i].task_title = tk.task_title}
       IN IF same = {} THEN best_by_title(Tail(tasks), Append(best, tk))
          ELSE LET i == CHOOSE j \in same : TRUE
               IN IF tk.task_value > best[i].task_value
                  THEN best_by_title(Tail(tasks), [best EXCEPT ![i] = tk])
                  ELSE best_by_title(Tail(tasks), best)

\* the sort key  to_float(x.get("task_value")) or -1.0
sort_key(tk) == IF tk.task_value = 0 THEN -1 ELSE tk.task_value

\* list.sort(key, reverse=True): stable, equal keys keep their order
RECURSIVE sort_desc(_, _)
sort_desc(tasks, sorted) ==
  IF tasks = <<>> THEN sorted
  ELSE LET tk == Head(tasks)
           n == Cardinality({i \in 1..Len(sorted) : sort_key(sorted[i]) >= sort_key(tk)})
       IN sort_desc(Tail(tasks),
                    SubSeq(sorted, 1, n) \o <<tk>> \o SubSeq(sorted, n + 1, Len(sorted)))

\* the same without the deduplication by title
sort_truncate_only(tasks, max_tasks) ==
  LET sorted == sort_desc(tasks, <<>>)
  IN SubSeq(sorted, 1, Min2(max_tasks, Len(sorted)))

\* deduplicate, sort, truncate (lines 1890-1901)
dedupe_sort_truncate(tasks, max_tasks) ==
  LET deduped == sort_desc(best_by_title(tasks, <<>>), <<>>)
  IN SubSeq(deduped, 1, Min2(max_tasks, Len(deduped)))

generate_improvement_tasks(result, max_tasks) ==
  dedupe_sort_truncate(candidate_tasks(result), max_tasks)

-----------------------------------------------------------------------------
(* Inputs                                                                  *)

\* fill_startup_defaults of an empty draft: every key it sets, and no other
StartupBlank ==
  [ target_geographies |-> L(<<>>),
    operating_geographies |-> L(<<>>),
    sectors_normalized |-> L(<<>>),
    subsectors_normalized |-> L(<<>>),
    business_model |-> [ primary |-> None,
      is_b2b |-> None,
      is_b2c |-> None ],
    raise |-> [ target_raise_usd |-> None,
      min_ticket_usd |-> None,
      max_ticket_usd |-> None,
      instrument_normalized |-> None ],
    deal_preferences |-> [ needs_lead |-> None,
      only_followers |-> None,
      timeline_to_close_days |-> None ],
    traction |-> [ primary_signal |-> None,
      arr_usd |-> None,
      revenue_ttm_usd |-> None,
      paying_customers_count |-> None,
      mom_growth_pct_3m_avg |-> None,
      yoy_growth_pct |-> None,
      evidence_links_count |-> N(0) ],
    milestones |-> [ quantified_count |-> None,
      stage_linked |-> None ],
    team |-> [ core_roles_covered_pct |-> None,
      domain_years_avg |-> None,
      prior_exit_count |-> None ],
    signals |-> [ responsiveness_days |-> None,
      reference_count |-> None,
      negative_reference_flag |-> None ],
    risk |-> [ regulatory_domain |-> None,
      regulatory_risk_level |-> None,
      mitigation_plan_present |-> None,
      time_to_liquidity_years |-> None,
      capital_intensity_level |-> None ],
    moat |-> [ score |-> None,
      types |-> L(<<>>) ],
    artifacts |-> [ pitch_deck_uploaded |-> None,
      pitch_deck_completeness_score |-> None,
      data_room_url |-> None,
      cap_table_uploaded |-> None,
      financial_model_uploaded |-> None,
      customer_metrics_uploaded |-> None ] ]

StartupStrong ==
  [ target_geographies |-> L(<<"US">>),
    operating_geographies |-> L(<<"US", "India">>),
    sectors_normalized |-> L(<<"FinTech", "ai">>),
    subsectors_normalized |-> L(<<"payments">>),
    business_model |-> [ primary |-> S("b2b"),
      is_b2b |-> B(TRUE),
      is_b2c |-> B(FALSE) ],
    raise |-> [ target_raise_usd |-> N(2000),
      min_ticket_usd |-> N(100),
      max_ticket_usd |-> N(600),
      instrument_normalized |-> S("safe") ],
    deal_preferences |-> [ needs_lead |-> B(TRUE),
      only_followers |-> B(FALSE),
      timeline_to_close_days |-> N(90) ],
    traction |-> [ primary_signal |-> S("revenue"),
      arr_usd |-> N(500),
      revenue_ttm_usd |-> N(400),
      paying_customers_count |-> N(20),
      mom_growth_pct_3m_avg |-> N(12),
      yoy_growth_pct |-> N(60),
      evidence_links_count |-> N(2) ],
    milestones |-> [ quantified_count |-> N(3),
      stage_linked |-> B(TRUE) ],
    team |-> [ core_roles_covered_pct |-> N(95),
      domain_years_avg |-> N(8),
      prior_exit_count |-> N(1) ],
    signals |-> [ responsiveness_days |-> N(2),
      reference_count |-> N(3),
      negative_reference_flag |-> B(FALSE) ],
    risk |-> [ regulatory_domain |-> S("payments"),
      regulatory_risk_level |-> N(2),
      mitigation_plan_present |-> B(TRUE),
      time_to_liquidity_years |-> N(6),
      capital_intensity_level |-> N(1) ],
    moat |-> [ score |-> N(85),
      types |-> L(<<"data">>) ],
    artifacts |-> [ pitch_deck_uploaded |-> B(TRUE),
      pitch_deck_completeness_score |-> N(90),
      data_room_url |-> S("https://dataroom"),
      cap_table_uploaded |-> B(TRUE),
      financial_model_uploaded |-> B(TRUE),
      customer_metrics_uploaded |-> B(TRUE) ],
    stage_normalized |-> S("seed"),
    round_normalized |-> S("seed"),
    hq_country |-> S("US") ]

StartupMid ==
  [ target_geographies |-> L(<<"India">>),
    operating_geographies |-> L(<<>>),
    sectors_normalized |-> L(<<"healthtech">>),
    subsectors_normalized |-> L(<<"ai">>),
    business_model |-> [ primary |-> S("marketplace"),
      is_b2b |-> B(FALSE),
      is_b2c |-> B(TRUE) ],
    raise |-> [ target_raise_usd |-> N(4000),
      min_ticket_usd |-> N(500),
      max_ticket_usd |-> N(1200),
      instrument_normalized |-> S("equity") ],
    deal_preferences |-> [ needs_lead |-> B(FALSE),
      only_followers |-> B(TRUE),
      timeline_to_close_days |-> N(30) ],
    traction |-> [ primary_signal |-> S("pilots"),
      arr_usd |-> N(0),
      revenue_ttm_usd |-> None,
      paying_customers_count |-> None,
      mom_growth_pct_3m_avg |-> N(3),
      yoy_growth_pct |-> N(10),
      evidence_links_count |-> N(1) ],
    milestones |-> [ quantified_count |-> N(1),
      stage_linked |-> B(FALSE) ],
    team |-> [ core_roles_covered_pct |-> N(50),
      domain_years_avg |-> N(3),
      prior_exit_count |-> N(0) ],
    signals |-> [ responsiveness_days |-> N(10),
      reference_count |-> N(1),
      negative_reference_flag |-> B(FALSE) ],
    risk |-> [ regulatory_domain |-> S("healthcare"),
      regulatory_risk_level |-> N(3),
      mitigation_plan_present |-> B(FALSE),
      time_to_liquidity_years |-> N(12),
      capital_intensity_level |-> N(3) ],
    moat |-> [ score |-> N(50),
      types |-> L(<<>>) ],
    artifacts |-> [ pitch_deck_uploaded |-> B(FALSE),
      pitch_deck_completeness_score |-> None,
      data_room_url |-> S(""),
      cap_table_uploaded |-> B(TRUE),
      financial_model_uploaded |-> B(TRUE),
      customer_metrics_uploaded |-> None ],
    stage_normalized |-> S("series_a"),
    round_normalized |-> None,
    hq_country |-> S("India") ]

\* fill_investor_defaults of an empty draft
InvestorBlank ==
  [ active_status |-> S("active"),
    stage_focus_normalized |-> L(<<>>),
    stage_exclude_normalized |-> L(<<>>),
    sector_focus_normalized |-> L(<<>>),
    sector_exclude_normalized |-> L(<<>>),
    business_models_include |-> L(<<>>),
    business_models_exclude |-> L(<<>>),
    geo_focus_normalized |-> L(<<>>),
    geo_exclude_normalized |-> L(<<>>),
    instrument_include_normalized |-> L(<<>>),
    instrument_exclude_normalized |-> L(<<>>),
    regulatory_exclude |-> L(<<>>),
    source_urls |-> L(<<>>),
    geo_hard_constraint |-> None,
    remote_ok |-> None,
    lead_follow_strict |-> None,
    requires_pitch_deck |-> None,
    requires_data_room |-> None,
    prefers_b2b |-> None,
    prefers_b2c |-> None,
    check_min_usd |-> None,
    check_typical_usd |-> None,
    check_max_usd |-> None,
    decision_speed_days |-> None,
    regulatory_tolerance_level |-> None,
    capital_intensity_tolerance_level |-> None,
    time_horizon_min_years |-> None,
    time_horizon_max_years |-> None,
    defensibility_preference_min_score |-> None,
    lead_or_follow |-> S("both") ]

InvestorMatch ==
  [ active_status |-> S("active"),
    stage_focus_normalized |-> L(<<"seed", "series_a">>),
    stage_exclude_normalized |-> L(<<>>),
    sector_focus_normalized |-> L(<<"fintech", "ai">>),
    sector_exclude_normalized |-> L(<<>>),
    business_models_include |-> L(<<"b2b", "b2c">>),
    business_models_exclude |-> L(<<>>),
    geo_focus_normalized |-> L(<<"us">>),
    geo_exclude_normalized |-> L(<<>>),
    instrument_include_normalized |-> L(<<"equity", "safe", "convertible_note">>),
    instrument_exclude_normalized |-> L(<<>>),
    regulatory_exclude |-> L(<<>>),
    source_urls |-> L(<<>>),
    geo_hard_constraint |-> B(FALSE),
    remote_ok |-> B(TRUE),
    lead_follow_strict |-> B(FALSE),
    requires_pitch_deck |-> B(TRUE),
    requires_data_room |-> B(TRUE),
    prefers_b2b |-> B(TRUE),
    prefers_b2c |-> None,
    check_min_usd |-> N(50),
    check_typical_usd |-> N(200),
    check_max_usd |-> N(500),
    decision_speed_days |-> N(45),
    regulatory_tolerance_level |-> N(2),
    capital_intensity_tolerance_level |-> N(2),
    time_horizon_min_years |-> N(3),
    time_horizon_max_years |-> N(12),
    defensibility_preference_min_score |-> N(60),
    lead_or_follow |-> S("lead"),
    name |-> S("Alpha Capital") ]

InvestorStrict ==
  [ active_status |-> S("Active"),
    stage_focus_normalized |-> L(<<"series_b", "series_c_plus">>),
    stage_exclude_normalized |-> L(<<"pre_seed">>),
    sector_focus_normalized |-> L(<<"biotech">>),
    sector_exclude_normalized |-> L(<<"gambling">>),
    business_models_include |-> L(<<"b2c">>),
    business_models_exclude |-> L(<<"marketplace">>),
    geo_focus_normalized |-> L(<<"uk">>),
    geo_exclude_normalized |-> L(<<"russia">>),
    instrument_include_normalized |-> L(<<"equity">>),
    instrument_exclude_normalized |-> L(<<"debt">>),
    regulatory_exclude |-> L(<<"crypto">>),
    source_urls |-> L(<<>>),
    geo_hard_constraint |-> B(FALSE),
    remote_ok |-> B(FALSE),
    lead_follow_strict |-> B(TRUE),
    requires_pitch_deck |-> B(TRUE),
    requires_data_room |-> B(TRUE),
    prefers_b2b |-> B(FALSE),
    prefers_b2c |-> B(TRUE),
    check_min_usd |-> N(1000),
    check_typical_usd |-> N(5),
    check_max_usd |-> N(3000),
    decision_speed_days |-> N(120),
    regulatory_tolerance_level |-> N(1),
    capital_intensity_tolerance_level |-> N(1),
    time_horizon_min_years |-> N(2),
    time_horizon_max_years |-> N(4),
    defensibility_preference_min_score |-> N(90),
    lead_or_follow |-> S("follow"),
    name |-> None ]

\* an investor whose exclusion lists, check size and hard geography
\* constraint stand against StartupStrong on every hard gate
InvestorExcluding ==
  [ active_status |-> S("inactive"),
    stage_focus_normalized |-> L(<<"series_b">>),
    stage_exclude_normalized |-> L(<<"seed">>),
    sector_focus_normalized |-> L(<<"biotech">>),
    sector_exclude_normalized |-> L(<<"fintech">>),
    business_models_include |-> L(<<"b2c">>),
    business_models_exclude |-> L(<<"b2b">>),
    geo_focus_normalized |-> L(<<"uk">>),
    geo_exclude_normalized |-> L(<<"us">>),
    instrument_include_normalized |-> L(<<"equity">>),
    instrument_exclude_normalized |-> L(<<"safe">>),
    regulatory_exclude |-> L(<<"payments">>),
    source_urls |-> L(<<>>),
    geo_hard_constraint |-> B(TRUE),
    remote_ok |-> B(FALSE),
    lead_follow_strict |-> B(TRUE),
    requires_pitch_deck |-> B(TRUE),
    requires_data_room |-> B(TRUE),
    prefers_b2b |-> B(FALSE),
    prefers_b2c |-> B(TRUE),
    check_min_usd |-> N(10),
    check_typical_usd |-> N(25),
    check_max_usd |-> N(50),
    decision_speed_days |-> N(120),
    regulatory_tolerance_level |-> N(1),
    capital_intensity_tolerance_level |-> N(1),
    time_horizon_min_years |-> N(2),
    time_horizon_max_years |-> N(4),
    defensibility_preference_min_score |-> N(90),
    lead_or_follow |-> S("follow"),
    name |-> S("Omega Partners") ]

\* the field updates a completed task may carry: <<dotted path, value>>
FIELD_UPDATES ==
  << <<<<"startup", "stage_normalized">>, None>>,
     <<<<"startup", "stage_normalized">>, S("pre_seed")>>,
     <<<<"startup", "stage_normalized">>, S("seed")>>,
     <<<<"startup", "stage_normalized">>, S("series_a")>>,
     <<<<"startup", "stage_normalized">>, S("series_c_plus")>>,
     <<<<"startup", "stage_normalized">>, S("ipo")>>,
     <<<<"startup", "round_normalized">>, None>>,
     <<<<"startup", "round_normalized">>, S("seed")>>,
     <<<<"startup", "round_normalized">>, S("series_b")>>,
     <<<<"startup", "hq_country">>, None>>,
     <<<<"startup", "hq_country">>, S("US")>>,
     <<<<"startup", "hq_country">>, S("uk")>>,
     <<<<"startup", "hq_country">>, S(" ")>>,
     <<<<"startup", "target_geographies">>, L(<<>>)>>,
     <<<<"startup", "target_geographies">>, L(<<"US">>)>>,
     <<<<"startup", "target_geographies">>, L(<<"uk">>)>>,
     <<<<"startup", "target_geographies">>, L(<<"russia">>)>>,
     <<<<"startup", "operating_geographies">>, L(<<>>)>>,
     <<<<"startup", "operating_geographies">>, L(<<"us">>)>>,
     <<<<"startup", "operating_geographies">>, L(<<"uk", "India">>)>>,
     <<<<"startup", "sectors_normalized">>, L(<<>>)>>,
     <<<<"startup", "sectors_normalized">>, L(<<"fintech">>)>>,
     <<<<"startup", "sectors_normalized">>, L(<<"fintech", "ai">>)>>,
     <<<<"startup", "sectors_normalized">>, L(<<"gambling">>)>>,
     <<<<"startup", "sectors_normalized">>, L(<<"biotech">>)>>,
     <<<<"startup", "subsectors_normalized">>, L(<<>>)>>,
     <<<<"startup", "subsectors_normalized">>, L(<<"ai">>)>>,
     <<<<"startup", "subsectors_normalized">>, L(<<"biotech">>)>>,
     <<<<"startup", "business_model", "primary">>, None>>,
     <<<<"startup", "business_model", "primary">>, S("b2b")>>,
     <<<<"startup", "business_model", "primary">>, S("b2c")>>,
     <<<<"startup", "business_model", "primary">>, S("marketplace")>>,
     <<<<"startup", "business_model", "primary">>, S("SaaS")>>,
     <<<<"startup", "business_model", "is_b2b">>, None>>,
     <<<<"startup", "business_model", "is_b2b">>, B(TRUE)>>,
     <<<<"startup", "business_model", "is_b2b">>, B(FALSE)>>,
     <<<<"startup", "business_model", "is_b2c">>, None>>,
     <<<<"startup", "business_model", "is_b2c">>, B(TRUE)>>,
     <<<<"startup", "business_model", "is_b2c">>, B(FALSE)>>,
     <<<<"startup", "raise", "target_raise_usd">>, None>>,
     <<<<"startup", "raise", "target_raise_usd">>, N(600)>>,
     <<<<"startup", "raise", "target_raise_usd">>, N(2000)>>,
     <<<<"startup", "raise", "target_raise_usd">>, N(20000)>>,
     <<<<"startup", "raise", "min_ticket_usd">>, None>>,
     <<<<"startup", "raise", "min_ticket_usd">>, N(100)>>,
     <<<<"startup", "raise", "min_ticket_usd">>, N(500)>>,
     <<<<"startup", "raise", "min_ticket_usd">>, N(4000)>>,
     <<<<"startup", "raise", "max_ticket_usd">>, None>>,
     <<<<"startup", "raise", "max_ticket_usd">>, N(50)>>,
     <<<<"startup", "raise", "max_ticket_usd">>, N(600)>>,
     <<<<"startup", "raise", "max_ticket_usd">>, N(5000)>>,
     <<<<"startup", "raise", "instrument_normalized">>, None>>,
     <<<<"startup", "raise", "instrument_normalized">>, S("safe")>>,
     <<<<"startup", "raise", "instrument_normalized">>, S("equity")>>,
     <<<<"startup", "raise", "instrument_normalized">>, S("debt")>>,
     <<<<"startup", "raise", "instrument_normalized">>, S("SAFE")>>,
     <<<<"startup", "deal_preferences", "needs_lead">>, None>>,
     <<<<"startup", "deal_preferences", "needs_lead">>, B(TRUE)>>,
     <<<<"startup", "deal_preferences", "needs_lead">>, B(FALSE)>>,
     <<<<"startup", "deal_preferences", "only_followers">>, None>>,
     <<<<"startup", "deal_preferences", "only_followers">>, B(TRUE)>>,
     <<<<"startup", "deal_preferences", "only_followers">>, B(FALSE)>>,
     <<<<"startup", "deal_preferences", "timeline_to_close_days">>, None>>,
     <<<<"startup", "deal_preferences", "timeline_to_close_days">>, N(30)>>,
     <<<<"startup", "deal_preferences", "timeline_to_close_days">>, N(90)>>,
     <<<<"startup", "traction", "primary_signal">>, None>>,
     <<<<"startup", "traction", "primary_signal">>, S("revenue")>>,
     <<<<"startup", "traction", "primary_signal">>, S("pilots")>>,
     <<<<"startup", "traction", "primary_signal">>, S("waitlist")>>,
     <<<<"startup", "traction", "primary_signal">>, S("none")>>,
     <<<<"startup", "traction", "primary_signal">>, S("partnerships")>>,
     <<<<"startup", "traction", "arr_usd">>, None>>,
     <<<<"startup", "traction", "arr_usd">>, N(0)>>,
     <<<<"startup", "traction", "arr_usd">>, N(500)>>,
     <<<<"startup", "traction", "revenue_ttm_usd">>, None>>,
     <<<<"startup", "traction", "revenue_ttm_usd">>, N(0)>>,
     <<<<"startup", "traction", "revenue_ttm_usd">>, N(400)>>,
     <<<<"startup", "traction", "evidence_links_count">>, None>>,
     <<<<"startup", "traction", "evidence_links_count">>, N(0)>>,
     <<<<"startup", "traction", "evidence_links_count">>, N(2)>>,
     <<<<"startup", "traction", "mom_growth_pct_3m_avg">>, None>>,
     <<<<"startup", "traction", "mom_growth_pct_3m_avg">>, N(-2)>>,
     <<<<"startup", "traction", "mom_growth_pct_3m_avg">>, N(0)>>,
     <<<<"startup", "traction", "mom_growth_pct_3m_avg">>, N(5)>>,
     <<<<"startup", "traction", "mom_growth_pct_3m_avg">>, N(10)>>,
     <<<<"startup", "traction", "yoy_growth_pct">>, None>>,
     <<<<"startup", "traction", "yoy_growth_pct">>, N(-5)>>,
     <<<<"startup", "traction", "yoy_growth_pct">>, N(10)>>,
     <<<<"startup", "traction", "yoy_growth_pct">>, N(20)>>,
     <<<<"startup", "traction", "yoy_growth_pct">>, N(50)>>,
     <<<<"startup", "milestones", "quantified_count">>, None>>,
     <<<<"startup", "milestones", "quantified_count">>, N(0)>>,
     <<<<"startup", "milestones", "quantified_count">>, N(1)>>,
     <<<<"startup", "milestones", "quantified_count">>, N(2)>>,
     <<<<"startup", "milestones", "quantified_count">>, N(3)>>,
     <<<<"startup", "milestones", "quantified_count">>, N(-1)>>,
     <<<<"startup", "milestones", "stage_linked">>, None>>,
     <<<<"startup", "milestones", "stage_linked">>, B(TRUE)>>,
     <<<<"startup", "milestones", "stage_linked">>, B(FALSE)>>,
     <<<<"startup", "team", "core_roles_covered_pct">>, None>>,
     <<<<"startup", "team", "core_roles_covered_pct">>, N(20)>>,
     <<<<"startup", "team", "core_roles_covered_pct">>, N(40)>>,
     <<<<"startup", "team", "core_roles_covered_pct">>, N(70)>>,
     <<<<"startup", "team", "core_roles_covered_pct">>, N(90)>>,
     <<<<"startup", "team", "core_roles_covered_pct">>, N(100)>>,
     <<<<"startup", "team", "core_roles_covered_pct">>, N(9500)>>,
     <<<<"startup", "team", "core_roles_covered_pct">>, N(20000)>>,
     <<<<"startup", "team", "domain_years_avg">>, None>>,
     <<<<"startup", "team", "domain_years_avg">>, N(0)>>,
     <<<<"startup", "team", "domain_years_avg">>, N(1)>>,
     <<<<"startup", "team", "domain_years_avg">>, N(3)>>,
     <<<<"startup", "team", "domain_years_avg">>, N(5)>>,
     <<<<"startup", "team", "domain_years_avg">>, N(8)>>,
     <<<<"startup", "team", "prior_exit_count">>, None>>,
     <<<<"startup", "team", "prior_exit_count">>, N(0)>>,
     <<<<"startup", "team", "prior_exit_count">>, N(1)>>,
     <<<<"startup", "signals", "responsiveness_days">>, None>>,
     <<<<"startup", "signals", "responsiveness_days">>, N(3)>>,
     <<<<"startup", "signals", "responsiveness_days">>, N(7)>>,
     <<<<"startup", "signals", "responsiveness_days">>, N(14)>>,
     <<<<"startup", "signals", "responsiveness_days">>, N(30)>>,
     <<<<"startup", "signals", "reference_count">>, None>>,
     <<<<"startup", "signals", "reference_count">>, N(0)>>,
     <<<<"startup", "signals", "reference_count">>, N(1)>>,
     <<<<"startup", "signals", "reference_count">>, N(2)>>,
     <<<<"startup", "signals", "negative_reference_flag">>, None>>,
     <<<<"startup", "signals", "negative_reference_flag">>, B(TRUE)>>,
     <<<<"startup", "signals", "negative_reference_flag">>, B(FALSE)>>,
     <<<<"startup", "risk", "regulatory_domain">>, None>>,
     <<<<"startup", "risk", "regulatory_domain">>, S("crypto")>>,
     <<<<"startup", "risk", "regulatory_domain">>, S("payments")>>,
     <<<<"startup", "risk", "regulatory_risk_level">>, None>>,
     <<<<"startup", "risk", "regulatory_risk_level">>, N(1)>>,
     <<<<"startup", "risk", "regulatory_risk_level">>, N(2)>>,
     <<<<"startup", "risk", "regulatory_risk_level">>, N(3)>>,
     <<<<"startup", "risk", "regulatory_risk_level">>, N(4)>>,
     <<<<"startup", "risk", "mitigation_plan_present">>, None>>,
     <<<<"startup", "risk", "mitigation_plan_present">>, B(TRUE)>>,
     <<<<"startup", "risk", "mitigation_plan_present">>, B(FALSE)>>,
     <<<<"startup", "risk", "time_to_liquidity_years">>, None>>,
     <<<<"startup", "risk", "time_to_liquidity_years">>, N(3)>>,
     <<<<"startup", "risk", "time_to_liquidity_years">>, N(6)>>,
     <<<<"startup", "risk", "time_to_liquidity_years">>, N(14)>>,
     <<<<"startup", "risk", "time_to_liquidity_years">>, N(20)>>,
     <<<<"startup", "risk", "capital_intensity_level">>, None>>,
     <<<<"startup", "risk", "capital_intensity_level">>, N(1)>>,
     <<<<"startup", "risk", "capital_intensity_level">>, N(3)>>,
     <<<<"startup", "moat", "score">>, None>>,
     <<<<"startup", "moat", "score">>, N(30)>>,
     <<<<"startup", "moat", "score">>, N(40)>>,
     <<<<"startup", "moat", "score">>, N(60)>>,
     <<<<"startup", "moat", "score">>, N(80)>>,
     <<<<"startup", "moat", "score">>, N(95)>>,
     <<<<"startup", "artifacts", "pitch_deck_uploaded">>, None>>,
     <<<<"startup", "artifacts", "pitch_deck_uploaded">>, B(TRUE)>>,
     <<<<"startup", "artifacts", "pitch_deck_uploaded">>, B(FALSE)>>,
     <<<<"startup", "artifacts", "pitch_deck_completeness_score">>, None>>,
     <<<<"startup", "artifacts", "pitch_deck_completeness_score">>, N(50)>>,
     <<<<"startup", "artifacts", "pitch_deck_completeness_score">>, N(60)>>,
     <<<<"startup", "artifacts", "pitch_deck_completeness_score">>, N(80)>>,
     <<<<"startup", "artifacts", "data_room_url">>, None>>,
     <<<<"startup", "artifacts", "data_room_url">>, S("")>>,
     <<<<"startup", "artifacts", "data_room_url">>, S(" ")>>,
     <<<<"startup", "artifacts", "data_room_url">>, S("https://dataroom")>>,
     <<<<"startup", "artifacts", "cap_table_uploaded">>, None>>,
     <<<<"startup", "artifacts", "cap_table_uploaded">>, B(TRUE)>>,
     <<<<"startup", "artifacts", "cap_table_uploaded">>, B(FALSE)>>,
     <<<<"startup", "artifacts", "financial_model_uploaded">>, None>>,
     <<<<"startup", "artifacts", "financial_model_uploaded">>, B(TRUE)>>,
     <<<<"startup", "artifacts", "financial_model_uploaded">>, B(FALSE)>>,
     <<<<"startup", "artifacts", "customer_metrics_uploaded">>, None>>,
     <<<<"startup", "artifacts", "customer_metrics_uploaded">>, B(TRUE)>>,
     <<<<"startup", "artifacts", "customer_metrics_uploaded">>, B(FALSE)>>,
     <<<<"investor", "active_status">>, None>>,
     <<<<"investor", "active_status">>, S("active")>>,
     <<<<"investor", "active_status">>, S("inactive")>>,
     <<<<"investor", "active_status">>, S(" active ")>>,
     <<<<"investor", "stage_focus_normalized">>, L(<<>>)>>,
     <<<<"investor", "stage_focus_normalized">>, L(<<"seed">>)>>,
     <<<<"investor", "stage_focus_normalized">>, L(<<"pre_seed">>)>>,
     <<<<"investor", "stage_focus_normalized">>, L(<<"series_a", "series_b">>)>>,
     <<<<"investor", "stage_focus_normalized">>, L(<<"series_c_plus">>)>>,
     <<<<"investor", "stage_exclude_normalized">>, L(<<>>)>>,
     <<<<"investor", "stage_exclude_normalized">>, L(<<"seed">>)>>,
     <<<<"investor", "stage_exclude_normalized">>, L(<<"series_a", "series_c_plus">>)>>,
     <<<<"investor", "sector_focus_normalized">>, L(<<>>)>>,
     <<<<"investor", "sector_focus_normalized">>, L(<<"fintech">>)>>,
     <<<<"investor", "sector_focus_normalized">>, L(<<"fintech", "ai">>)>>,
     <<<<"investor", "sector_focus_normalized">>, L(<<"healthtech">>)>>,
     <<<<"investor", "sector_exclude_normalized">>, L(<<>>)>>,
     <<<<"investor", "sector_exclude_normalized">>, L(<<"fintech">>)>>,
     <<<<"investor", "sector_exclude_normalized">>, L(<<"healthtech", "gambling">>)>>,
     <<<<"investor", "business_models_include">>, L(<<>>)>>,
     <<<<"investor", "business_models_include">>, L(<<"b2b">>)>>,
     <<<<"investor", "business_models_include">>, L(<<"marketplace", "saas">>)>>,
     <<<<"investor", "business_models_exclude">>, L(<<>>)>>,
     <<<<"investor", "business_models_exclude">>, L(<<"b2b">>)>>,
     <<<<"investor", "business_models_exclude">>, L(<<"marketplace">>)>>,
     <<<<"investor", "geo_focus_normalized">>, L(<<>>)>>,
     <<<<"investor", "geo_focus_normalized">>, L(<<"us">>)>>,
     <<<<"investor", "geo_focus_normalized">>, L(<<"India">>)>>,
     <<<<"investor", "geo_focus_normalized">>, L(<<"uk">>)>>,
     <<<<"investor", "geo_exclude_normalized">>, L(<<>>)>>,
     <<<<"investor", "geo_exclude_normalized">>, L(<<"us">>)>>,
     <<<<"investor", "geo_exclude_normalized">>, L(<<"India", "russia">>)>>,
     <<<<"investor", "instrument_include_normalized">>, L(<<>>)>>,
     <<<<"investor", "instrument_include_normalized">>, L(<<"safe">>)>>,
     <<<<"investor", "instrument_include_normalized">>, L(<<"equity", "debt">>)>>,
     <<<<"investor", "instrument_exclude_normalized">>, L(<<>>)>>,
     <<<<"investor", "instrument_exclude_normalized">>, L(<<"safe">>)>>,
     <<<<"investor", "instrument_exclude_normalized">>, L(<<"equity", "debt">>)>>,
     <<<<"investor", "regulatory_exclude">>, L(<<>>)>>,
     <<<<"investor", "regulatory_exclude">>, L(<<"payments">>)>>,
     <<<<"investor", "regulatory_exclude">>, L(<<"healthcare", "crypto">>)>>,
     <<<<"investor", "geo_hard_constraint">>, None>>,
     <<<<"investor", "geo_hard_constraint">>, B(TRUE)>>,
     <<<<"investor", "geo_hard_constraint">>, B(FALSE)>>,
     <<<<"investor", "remote_ok">>, None>>,
     <<<<"investor", "remote_ok">>, B(TRUE)>>,
     <<<<"investor", "remote_ok">>, B(FALSE)>>,
     <<<<"investor", "lead_follow_strict">>, None>>,
     <<<<"investor", "lead_follow_strict">>, B(TRUE)>>,
     <<<<"investor", "lead_follow_strict">>, B(FALSE)>>,
     <<<<"investor", "requires_pitch_deck">>, None>>,
     <<<<"investor", "requires_pitch_deck">>, B(TRUE)>>,
     <<<<"investor", "requires_pitch_deck">>, B(FALSE)>>,
     <<<<"investor", "requires_data_room">>, None>>,
     <<<<"investor", "requires_data_room">>, B(TRUE)>>,
     <<<<"investor", "requires_data_room">>, B(FALSE)>>,
     <<<<"investor", "prefers_b2b">>, None>>,
     <<<<"investor", "prefers_b2b">>, B(TRUE)>>,
     <<<<"investor", "prefers_b2b">>, B(FALSE)>>,
     <<<<"investor", "prefers_b2c">>, None>>,
     <<<<"investor", "prefers_b2c">>, B(TRUE)>>,
     <<<<"investor", "prefers_b2c">>, B(FALSE)>>,
     <<<<"investor", "check_min_usd">>, None>>,
     <<<<"investor", "check_min_usd">>, N(50)>>,
     <<<<"investor", "check_min_usd">>, N(700)>>,
     <<<<"investor", "check_min_usd">>, N(6000)>>,
     <<<<"investor", "check_typical_usd">>, None>>,
     <<<<"investor", "check_typical_usd">>, N(15)>>,
     <<<<"investor", "check_typical_usd">>, N(25)>>,
     <<<<"investor", "check_typical_usd">>, N(200)>>,
     <<<<"investor", "check_typical_usd">>, N(1000)>>,
     <<<<"investor", "check_max_usd">>, None>>,
     <<<<"investor", "check_max_usd">>, N(80)>>,
     <<<<"investor", "check_max_usd">>, N(200)>>,
     <<<<"investor", "check_max_usd">>, N(500)>>,
     <<<<"investor", "check_max_usd">>, N(8000)>>,
     <<<<"investor", "decision_speed_days">>, None>>,
     <<<<"investor", "decision_speed_days">>, N(20)>>,
     <<<<"investor", "decision_speed_days">>, N(40)>>,
     <<<<"investor", "decision_speed_days">>, N(100)>>,
     <<<<"investor", "decision_speed_days">>, N(150)>>,
     <<<<"investor", "regulatory_tolerance_level">>, None>>,
     <<<<"investor", "regulatory_tolerance_level">>, N(1)>>,
     <<<<"investor", "regulatory_tolerance_level">>, N(2)>>,
     <<<<"investor", "regulatory_tolerance_level">>, N(3)>>,
     <<<<"investor", "capital_intensity_tolerance_level">>, None>>,
     <<<<"investor", "capital_intensity_tolerance_level">>, N(1)>>,
     <<<<"investor", "capital_intensity_tolerance_level">>, N(2)>>,
     <<<<"investor", "time_horizon_min_years">>, None>>,
     <<<<"investor", "time_horizon_min_years">>, N(3)>>,
     <<<<"investor", "time_horizon_min_years">>, N(7)>>,
     <<<<"investor", "time_horizon_max_years">>, None>>,
     <<<<"investor", "time_horizon_max_years">>, N(5)>>,
     <<<<"investor", "time_horizon_max_years">>, N(10)>>,
     <<<<"investor", "defensibility_preference_min_score">>, None>>,
     <<<<"investor", "defensibility_preference_min_score">>, N(50)>>,
     <<<<"investor", "defensibility_preference_min_score">>, N(70)>>,
     <<<<"investor", "defensibility_preference_min_score">>, N(90)>>,
     <<<<"investor", "lead_or_follow">>, None>>,
     <<<<"investor", "lead_or_follow">>, S("lead")>>,
     <<<<"investor", "lead_or_follow">>, S("follow")>>,
     <<<<"investor", "lead_or_follow">>, S("both")>>,
     <<<<"investor", "lead_or_follow">>, S("Both")>> >>
Rules(q) == [t |-> "rules", v |-> q]
Dict(d) == [t |-> "dict", v |-> d]

\* Scenario D: A1 option default_non_focus_stage worth 3 (its key carries stray
\* blanks, as a hand-edited rubric file may), with its own category meta
RubricScenarioD ==
  Dict([categories |->
    << <<"deal_compatibility",
         [maximum_point |-> N(100), weight |-> N(40),
          A1_stage_alignment |-> Rules(<<
            [maximum_points |-> N(30),
             options |-> << <<"startup.stage_normalized  IN  investor.stage_focus_normalized", N(28)>>,
                            <<"  default_non_focus_stage ", N(3)>> >>] >>)]>> >>])

\* a partial rubric: one A1 option and one D1 option, a lower A1 maximum, no
\* category meta
RubricPartial ==
  Dict([categories |->
    << <<"deal_compatibility",
         [A1_stage_alignment |-> Rules(<<
            [maximum_points |-> N(5),
             options |-> << <<"default_non_focus_stage", N(3)>> >>] >>)]>>,
       <<"founder_team_fit",
         [D1_team_completeness_vs_stage |-> Rules(<<
            [options |-> << <<"missing(startup.team.core_roles_covered_pct)", N(0)>> >>] >>)]>> >>])

\* category meta only: other maxima and weights, one category with maximum 0
RubricMeta ==
  Dict([categories |->
    << <<"deal_compatibility", [maximum_point |-> N(100), weight |-> N(40)]>>,
       <<"sector_business_model_fit", [weight |-> N(15)]>>,
       <<"founder_team_fit", [maximum_point |-> N(0), weight |-> N(20)]>>,
       <<"diligence_process_fit", [maximum_point |-> S("$500"), weight |-> None]>> >>])

\* a sub-rule listed under two categories, an empty rule list, a rule with
\* neither options nor maximum
RubricOdd ==
  Dict([categories |->
    << <<"sector_business_model_fit",
         [maximum_point |-> N(50), weight |-> N(20),
          B1_sector_focus_alignment |-> Rules(<<
            [maximum_points |-> N(30),
             options |-> << <<"default_no_overlap", N(12)>> >>] >>),
          B2_business_model_fit |-> Rules(<<>>)]>>,
       <<"traction_vs_thesis_bar",
         [B1_sector_focus_alignment |-> Rules(<<
            [maximum_points |-> N(40),
             options |-> << <<"default_no_overlap", N(2)>>,
                            <<"missing(startup.sectors_normalized) OR empty(investor.sector_focus_normalized)", N(40)>> >>] >>),
          C2_traction_momentum |-> Rules(<< [evaluation_order |-> None] >>)]>> >>])

RUBRICS == <<RubricScenarioD, RubricPartial, RubricMeta, RubricOdd>>

STARTUPS == <<StartupBlank, StartupStrong, StartupMid>>
INVESTORS == <<InvestorBlank, InvestorMatch, InvestorStrict>>

\* args.max_tasks when the command line gives none
DEFAULT_MAX_TASKS == 12

-----------------------------------------------------------------------------
(* Task completion overrides                                               *)

IsDict(x) == "t" \notin DOMAIN x

SetKey(d, k, value) ==
  [x \in DOMAIN d \cup {k} |-> IF x = k THEN value ELSE d[x]]

\* set_by_dotted_path; parts is dotted.split(".") without its empty parts
RECURSIVE set_by_dotted_path(_, _, _)
set_by_dotted_path(root, parts, value) ==
  IF parts = <<>> THEN root
  ELSE IF Len(parts) = 1 THEN SetKey(root, parts[1], value)
  ELSE LET p == parts[1]
           cur == IF p \in DOMAIN root /\ IsDict(root[p]) THEN root[p] ELSE EmptyDict
       IN SetKey(root, p, set_by_dotted_path(cur, Tail(parts), value))

-----------------------------------------------------------------------------
(* The match command                                                       *)

VARIABLES
  startup_obj,    \* the startup thesis object {startup, metadata}
  investor_obj,   \* the investor thesis object {investor, metadata}
  rubric,         \* the rubric, None when there is none
  now,            \* the wall clock read by now_utc_iso
  pc,             \* where the command stands
  edits,          \* field updates applied so far
  result,         \* the Match Result of the last manual_match
  first_result,   \* the Match Result of the run before it
  max_tasks,      \* the max_tasks argument of generate_improvement_tasks
  tasks,          \* the task list returned
  llm,            \* the LLM router, its calls and what they refine (None when unused)
  completed_tasks_file,  \* the completed-tasks file argument of match_cmd and what it holds
  overridden,     \* what apply_completed_tasks_overrides returned and left of its arguments
  batch,          \* run_investor_matching: its rows, futures, counters and what it returned
  matches_table,  \* the rows of startup_investor_matches of the org
  pipeline_status,\* the _pipeline_status dict
  pipeline_tasks  \* the background tasks of the investor pipeline

vars == <<startup_obj, investor_obj, rubric, now, pc, edits, result, first_result,
          max_tasks, tasks, llm,
          completed_tasks_file, overridden,
          batch, matches_table, pipeline_status, pipeline_tasks>>

MaxEdits == 1

Init ==
  /\ \E i \in 1..Len(STARTUPS) :
       startup_obj = [startup |-> STARTUPS[i],
                      metadata |-> [source_files |-> S("startup_kv.json")]]
  /\ \E i \in 1..Len(INVESTORS) :
       investor_obj = [investor |-> INVESTORS[i],
                       metadata |-> [source_file |-> S("investor_data.json")]]
  /\ rubric = None
  /\ batch = None
  /\ matches_table = None
  /\ pipeline_status = None
  /\ pipeline_tasks = None
  /\ completed_tasks_file = None
  /\ overridden = None
  /\ now = 0
  /\ pc = "loaded"
  /\ edits = 0
  /\ result = None
  /\ first_result = None
  /\ max_tasks = DEFAULT_MAX_TASKS
  /\ tasks = <<>>
  /\ llm = None

\* apply_completed_tasks_overrides with one done task carrying one field update
ApplyOverride ==
  /\ pc = "loaded"
  /\ edits < MaxEdits
  /\ \E k \in 1..Len(FIELD_UPDATES) :
       LET p == FIELD_UPDATES[k][1]
           val == FIELD_UPDATES[k][2]
       IN IF p[1] = "investor"
          THEN /\ investor_obj' = set_by_dotted_path(investor_obj, p, val)
               /\ UNCHANGED startup_obj
          ELSE /\ startup_obj' = set_by_dotted_path(startup_obj, p, val)
               /\ UNCHANGED investor_obj
  /\ edits' = edits + 1
  /\ UNCHANGED <<rubric, now, pc, result, first_result, max_tasks, tasks, llm,
                 completed_tasks_file, overridden,
                 batch, matches_table, pipeline_status, pipeline_tasks>>

\* match_cmd reads the rubric file when there is one
LoadRubric ==
  /\ pc = "loaded"
  /\ rubric = None
  /\ \E i \in 1..Len(RUBRICS) : rubric' = RUBRICS[i]
  /\ UNCHANGED <<startup_obj, investor_obj, now, pc, edits, result, first_result,
                 max_tasks, tasks, llm,
                 completed_tasks_file, overridden,
                 batch, matches_table, pipeline_status, pipeline_tasks>>

\* match_cmd: manual_match, then generate_improvement_tasks on its result
MatchCmd ==
  /\ pc = "loaded"
  /\ result' = manual_match(startup_obj, investor_obj, rubric, now)
  /\ tasks' = generate_improvement_tasks(result', max_tasks)
  /\ pc' = "matched"
  /\ UNCHANGED <<startup_obj, investor_obj, rubric, now, edits, first_result, max_tasks, llm,
                 completed_tasks_file, overridden,
                 batch, matches_table, pipeline_status, pipeline_tasks>>

\* manual_match run again on the same startup, investor and rubric; the clock
\* has stood still or moved on when now_utc_iso reads it again
RunMatchAgain ==
  /\ pc = "matched"
  /\ \E later \in {now, now + 1} :
       /\ now' = later
       /\ result' = manual_match(startup_obj, investor_obj, rubric, later)
  /\ first_result' = result
  /\ pc' = "rerun"
  /\ UNCHANGED <<startup_obj, investor_obj, rubric, edits, max_tasks, tasks, llm,
                 completed_tasks_file, overridden,
                 batch, matches_table, pipeline_status, pipeline_tasks>>

\* the field update of the completed task "close team gaps": core roles fully
\* covered (1.0)
TEAM_COVERED_UPDATE == <<<<"startup", "team", "core_roles_covered_pct">>, N(100)>>

\* match_cmd run once more, now with a completed-tasks file whose done task
\* carries TEAM_COVERED_UPDATE: the override is applied, then manual_match and
\* generate_improvement_tasks run on the overridden profile
MatchAfterCompletedTask ==
  /\ pc = "matched"
  /\ startup_obj' = set_by_dotted_path(startup_obj, TEAM_COVERED_UPDATE[1],
                                       TEAM_COVERED_UPDATE[2])
  /\ result' = manual_match(startup_obj', investor_obj, rubric, now)
  /\ tasks' = generate_improvement_tasks(result', max_tasks)
  /\ first_result' = result
  /\ pc' = "rescored"
  /\ UNCHANGED <<investor_obj, rubric, now, edits, max_tasks, llm,
                 completed_tasks_file, overridden,
                 batch, matches_table, pipeline_status, pipeline_tasks>>

Next == ApplyOverride \/ LoadRubric \/ MatchCmd \/ RunMatchAgain \/ MatchAfterCompletedTask

Spec == Init /\ [][Next]_vars

-----------------------------------------------------------------------------
(* match_cmd against an investor that excludes the startup                 *)

InitGates ==
  /\ \E i \in 1..Len(STARTUPS) :
       startup_obj = [startup |-> STARTUPS[i],
                      metadata |-> [source_files |-> S("startup_kv.json")]]
  /\ investor_obj = [investor |-> InvestorExcluding,
                     metadata |-> [source_file |-> S("investor_data.json")]]
  /\ rubric = None
  /\ batch = None
  /\ matches_table = None
  /\ pipeline_status = None
  /\ pipeline_tasks = None
  /\ completed_tasks_file = None
  /\ overridden = None
  /\ now = 0
  /\ pc = "loaded"
  /\ edits = 0
  /\ result = None
  /\ first_result = None
  /\ max_tasks = DEFAULT_MAX_TASKS
  /\ tasks = <<>>
  /\ llm = None

SpecGates == InitGates /\ [][Next]_vars

-----------------------------------------------------------------------------
(* generate_improvement_tasks on any Match Result                          *)
(*                                                                         *)
(* generate_improvement_tasks takes any dict as its result: one read back  *)
(* from a match file may list a gate failure reason twice, a reason of no  *)
(* template, or a sub-rule under two categories.  SpecTasks draws such     *)
(* results and every max_tasks up to MaxTasksArg.                          *)

MaxGateFails == 2
MaxTasksArg == 3

InitTasks ==
  LET TASK_REASONS ==
        {"Investor is not active.", "Check size is out of range.",
         "Sector is out of scope."}
      TASK_SUBKEYS == {"A1_stage_alignment", "B1_sector_focus_alignment"}
      TASK_SUBVALUES ==
        {[points |-> 10, max_points |-> 30], [points |-> 30, max_points |-> 30]}
      TASK_SUBCATEGORIES == UNION {[K -> TASK_SUBVALUES] : K \in SUBSET TASK_SUBKEYS}
      TASK_GATE_FAILS == UNION {[1..n -> TASK_REASONS] : n \in 0..MaxGateFails}
  IN
  /\ startup_obj = EmptyDict
  /\ investor_obj = EmptyDict
  /\ rubric = None
  /\ batch = None
  /\ matches_table = None
  /\ pipeline_status = None
  /\ pipeline_tasks = None
  /\ completed_tasks_file = None
  /\ overridden = None
  /\ now = 0
  /\ pc = "matched"
  /\ edits = 0
  /\ first_result = None
  /\ tasks = <<>>
  /\ llm = None
  /\ max_tasks \in 0..MaxTasksArg
  /\ \E gf \in TASK_GATE_FAILS, fit \in {0, 50 * Scale},
        a \in TASK_SUBCATEGORIES, b \in TASK_SUBCATEGORIES, wb \in {0, 20, 50} :
       result =
         [gate_fail_reasons |-> gf,
          fit_score_if_eligible_0_to_100 |-> fit,
          category_breakdown |->
            [deal_compatibility |->
               [max_point |-> 125, weight |-> 35, subcategories |-> a],
             sector_business_model_fit |->
               [max_point |-> 50, weight |-> wb, subcategories |-> b]]]

GenerateTasks ==
  /\ pc = "matched"
  /\ tasks' = generate_improvement_tasks(result, max_tasks)
  /\ pc' = "tasked"
  /\ UNCHANGED <<startup_obj, investor_obj, rubric, now, edits, result, first_result,
                 max_tasks, llm,
                 completed_tasks_file, overridden,
                 batch, matches_table, pipeline_status, pipeline_tasks>>

NextTasks == GenerateTasks

SpecTasks == InitTasks /\ [][NextTasks]_vars

-----------------------------------------------------------------------------
(* Profile refinement: the heuristic draft, the provider router, the merge *)

\* the value a call that raised leaves in place of its result
Raised == [t |-> "raised"]

\* str.replace(" ", "_") on the strings of the model that hold a space
ReplaceSpaceTable ==
  << <<"revenue share", "revenue_share">>, <<"priced round", "priced_round">>,
     <<"late seed", "late_seed">> >>

normalize_instrument(v) ==
  LET s == norm_text(v)
  IN IF s = "" THEN None
     ELSE IF Contains("safe", s) THEN S("safe")
     ELSE IF Contains("convertible", s) \/ Contains("note", s) THEN S("convertible_note")
     ELSE IF Contains("equity", s) \/ Contains("priced", s) THEN S("equity")
     ELSE IF Contains("debt", s) THEN S("debt")
     ELSE S(Tabulated(ReplaceSpaceTable, s))

\* deep_merge_dict(base, updates)
RECURSIVE deep_merge_dict(_, _)
deep_merge_dict(base, updates) ==
  [k \in DOMAIN base \cup DOMAIN updates |->
     IF k \notin DOMAIN updates THEN base[k]
     ELSE IF k \in DOMAIN base /\ IsDict(base[k]) /\ IsDict(updates[k])
          THEN deep_merge_dict(base[k], updates[k])
          ELSE updates[k]]

\* d with d.setdefault(k, dflt) for every k of keys
SetDefaults(d, keys, dflt) ==
  [k \in DOMAIN d \cup keys |-> IF k \in DOMAIN d THEN d[k] ELSE dflt]

\* fill_startup_defaults(obj); Raised when a sub-dict key holds a value that is
\* no dict (None.setdefault raises AttributeError)
fill_startup_defaults(obj) ==
  LET \* the sub-dicts it fills, with the keys it defaults to None
      STARTUP_GROUPS ==
        [business_model |-> {"primary", "is_b2b", "is_b2c"},
         raise |-> {"target_raise_usd", "min_ticket_usd", "max_ticket_usd",
                    "instrument_normalized"},
         deal_preferences |-> {"needs_lead", "only_followers", "timeline_to_close_days"},
         traction |-> {"primary_signal", "arr_usd", "revenue_ttm_usd",
                       "paying_customers_count", "mom_growth_pct_3m_avg",
                       "yoy_growth_pct"},
         milestones |-> {"quantified_count", "stage_linked"},
         team |-> {"core_roles_covered_pct", "domain_years_avg", "prior_exit_count"},
         signals |-> {"responsiveness_days", "reference_count", "negative_reference_flag"},
         risk |-> {"regulatory_domain", "regulatory_risk_level", "mitigation_plan_present",
                   "time_to_liquidity_years", "capital_intensity_level"},
         moat |-> {"score"},
         artifacts |-> {"pitch_deck_uploaded", "pitch_deck_completeness_score",
                        "data_room_url", "cap_table_uploaded", "financial_model_uploaded",
                        "customer_metrics_uploaded"}]
      REG_RISK_MAP == << <<"low", 1>>, <<"medium", 2>>, <<"high", 3>>, <<"very_high", 4>>,
                         <<"very high", 4>> >>
      CAPITAL_INTENSITY_MAP == << <<"light", 1>>, <<"moderate", 2>>, <<"heavy", 3>> >>
      \* MAP.get(norm_text(v)) for a str v, v itself for any other value
      LevelOf(map, v) ==
        IF v.t # "str" THEN v
        ELSE IF \E i \in 1..Len(map) : map[i][1] = norm_text(v)
             THEN N(map[CHOOSE i \in 1..Len(map) : map[i][1] = norm_text(v)][2])
             ELSE None
      \* ROUND_MAP is a copy of STAGE_MAP
      normalize_round(v) == normalize_stage(v)
      Grouped(s1) ==
        [k \in DOMAIN s1 |->
           IF k \in DOMAIN STARTUP_GROUPS THEN SetDefaults(s1[k], STARTUP_GROUPS[k], None)
           ELSE s1[k]]
      Levelled(s2) ==
        [s2 EXCEPT
           !.traction = SetDefaults(@, {"evidence_links_count"}, N(0)),
           !.moat = [SetDefaults(@, {"types"}, L(<<>>)) EXCEPT !.score = parse_percent(@)],
           !.risk = [@ EXCEPT
                       !.regulatory_risk_level = LevelOf(REG_RISK_MAP, @),
                       !.capital_intensity_level = LevelOf(CAPITAL_INTENSITY_MAP, @)],
           !.raise = [@ EXCEPT
                        !.instrument_normalized =
                           IF Truthy(@) /\ ~IsNone(normalize_instrument(@))
                           THEN normalize_instrument(@) ELSE @],
           !.team = [@ EXCEPT !.core_roles_covered_pct = parse_percent(@)]]
      Normalized(k, v) ==
        IF k = "stage_normalized" /\ Truthy(v) /\ ~IsNone(normalize_stage(v))
        THEN normalize_stage(v)
        ELSE IF k = "round_normalized" /\ Truthy(v) /\ ~IsNone(normalize_round(v))
        THEN normalize_round(v)
        ELSE v
      Staged(s3) == [k \in DOMAIN s3 |-> Normalized(k, s3[k])]
      Filled(s1) ==
        IF \E g \in DOMAIN STARTUP_GROUPS : ~IsDict(s1[g]) THEN Raised
        ELSE [x \in DOMAIN obj \cup {"startup"} |->
                IF x = "startup" THEN Staged(Levelled(Grouped(s1))) ELSE obj[x]]
  IN Filled(SetDefaults(SetDefaults(GetOr(obj, "startup", EmptyDict),
                                    {"target_geographies", "operating_geographies",
                                     "sectors_normalized", "subsectors_normalized"},
                                    L(<<>>)),
                        DOMAIN STARTUP_GROUPS, EmptyDict))

\* fill_investor_defaults(obj)
fill_investor_defaults(obj) ==
  LET \* [x for x in to_list(v) if clean_text(x)]
      Kept(v) == SelectSeq(to_list(v), LAMBDA x : clean_str(x) # "")
      StageItems(v) ==
        L(unique_norm_list(
            [i \in 1..Len(Kept(v)) |->
               IF ~IsNone(normalize_stage(S(Kept(v)[i])))
               THEN normalize_stage(S(Kept(v)[i])).v
               ELSE Tabulated(ReplaceSpaceTable, norm_str(Kept(v)[i]))]))
      InstrumentItems(v) ==
        L(unique_norm_list(
            [i \in 1..Len(Kept(v)) |-> normalize_instrument(S(Kept(v)[i])).v]))
      ModelItems(v) ==
        L(unique_norm_list(
            [i \in 1..Len(Kept(v)) |->
               Tabulated(ReplaceSpaceTable, norm_str(Kept(v)[i]))]))
      \* normalize_sectors, normalize_geos and unique_norm_list of to_list(v)
      PlainItems(v) == L(unique_norm_list(to_list(v)))
      Filled(k, v) ==
        CASE k \in {"stage_focus_normalized", "stage_exclude_normalized"} -> StageItems(v)
          [] k \in {"instrument_include_normalized", "instrument_exclude_normalized"} ->
               InstrumentItems(v)
          [] k \in {"business_models_include", "business_models_exclude"} -> ModelItems(v)
          [] k \in {"sector_focus_normalized", "sector_exclude_normalized",
                    "geo_focus_normalized", "geo_exclude_normalized",
                    "regulatory_exclude"} -> PlainItems(v)
          [] k \in {"check_min_usd", "check_typical_usd", "check_max_usd"} -> to_float(v)
          [] k = "defensibility_preference_min_score" ->
               IF IsNone(to_float(v)) THEN None
               ELSE N(Min2(Max2(to_float(v).v, 0), 100))
          [] k \in {"decision_speed_days", "regulatory_tolerance_level",
                    "capital_intensity_tolerance_level", "time_horizon_min_years",
                    "time_horizon_max_years"} -> to_int(v)
          [] k = "lead_or_follow" ->
               IF v \in {S("lead"), S("follow"), S("both")} THEN v ELSE S("both")
          [] OTHER -> v
      AllFilled(i3) ==
        [x \in DOMAIN obj \cup {"investor"} |->
           IF x = "investor" THEN [k \in DOMAIN i3 |-> Filled(k, i3[k])] ELSE obj[x]]
  IN AllFilled(
       SetDefaults(
         SetDefaults(
           SetDefaults(
             SetDefaults(GetOr(obj, "investor", EmptyDict), {"active_status"}, S("active")),
             {"stage_focus_normalized", "stage_exclude_normalized",
              "sector_focus_normalized", "sector_exclude_normalized",
              "business_models_include", "business_models_exclude",
              "geo_focus_normalized", "geo_exclude_normalized",
              "instrument_include_normalized", "instrument_exclude_normalized",
              "regulatory_exclude", "source_urls"}, L(<<>>)),
           {"geo_hard_constraint", "remote_ok", "lead_follow_strict",
            "requires_pitch_deck", "requires_data_room", "prefers_b2b", "prefers_b2c",
            "check_min_usd", "check_typical_usd", "check_max_usd", "decision_speed_days",
            "regulatory_tolerance_level", "capital_intensity_tolerance_level",
            "time_horizon_min_years", "time_horizon_max_years",
            "defensibility_preference_min_score"}, None),
         {"lead_or_follow"}, S("both")))

\* the paths critical_missing_ratio_startup and critical_missing_ratio_investor
\* count, and the number of them that are absent or missing
STARTUP_CRITICAL_PATHS ==
  << <<"stage_normalized">>, <<"round_normalized">>, <<"hq_country">>,
     <<"sectors_normalized">>, <<"raise", "target_raise_usd">>,
     <<"raise", "instrument_normalized">>, <<"traction", "primary_signal">>,
     <<"risk", "regulatory_risk_level">>, <<"team", "domain_years_avg">> >>

INVESTOR_CRITICAL_PATHS ==
  << <<"active_status">>, <<"stage_focus_normalized">>, <<"sector_focus_normalized">>,
     <<"geo_focus_normalized">>, <<"check_typical_usd">>, <<"lead_or_follow">>,
     <<"instrument_include_normalized">>, <<"regulatory_tolerance_level">> >>

RECURSIVE PathMissing(_, _)
PathMissing(cur, path) ==
  IF path = <<>> THEN (IF IsDict(cur) THEN FALSE ELSE is_missing(cur))
  ELSE IF IsDict(cur) /\ Head(path) \in DOMAIN cur
       THEN PathMissing(cur[Head(path)], Tail(path))
       ELSE TRUE

critical_missing_count(profile, paths) ==
  Cardinality({j \in 1..Len(paths) : PathMissing(profile, paths[j])})

\* missing_threshold of the two refinements, in hundredths
STARTUP_MISSING_THRESHOLD == 45
INVESTOR_MISSING_THRESHOLD == 40


\* an order that calls every provider a second time before it goes on
provider_order_retrying(p, fallback_to_gemini) ==
  CASE p = "auto" -> <<"openai", "openai", "gemini", "gemini", "kimi", "kimi">>
    [] p = "openai" -> IF fallback_to_gemini THEN <<"openai", "openai", "gemini", "gemini">>
                       ELSE <<"openai", "openai">>
    [] p = "kimi" -> IF fallback_to_gemini THEN <<"kimi", "kimi", "gemini", "gemini">>
                     ELSE <<"kimi", "kimi">>
    [] p = "gemini" -> IF fallback_to_gemini THEN <<"gemini", "gemini", "openai", "openai">>
                       ELSE <<"gemini", "gemini">>
    [] OTHER -> <<>>

\* an order that puts gemini first under "auto"
provider_order_gemini_first(p, fallback_to_gemini) ==
  CASE p = "auto" -> <<"gemini", "openai", "kimi">>
    [] p = "openai" -> IF fallback_to_gemini THEN <<"openai", "gemini">> ELSE <<"openai">>
    [] p = "kimi" -> IF fallback_to_gemini THEN <<"kimi", "gemini">> ELSE <<"kimi">>
    [] p = "gemini" -> IF fallback_to_gemini THEN <<"gemini", "openai">> ELSE <<"gemini">>
    [] OTHER -> <<>>

\* LLMRouter.refine_json: the order of providers for provider p, none for an
\* unsupported provider (ValueError)
provider_order(p, fallback_to_gemini) ==
  CASE p = "auto" -> <<"openai", "gemini", "kimi">>
    [] p = "openai" -> IF fallback_to_gemini THEN <<"openai", "gemini">> ELSE <<"openai">>
    [] p = "kimi" -> IF fallback_to_gemini THEN <<"kimi", "gemini">> ELSE <<"kimi">>
    [] p = "gemini" -> IF fallback_to_gemini THEN <<"gemini", "openai">> ELSE <<"gemini">>
    [] OTHER -> <<>>

\* how a provider call fails: no API key, HTTP status >= 400, an exception or
\* timeout of the request, output that is empty or no JSON
FAILURES == {"missing_credentials", "http_error", "timeout", "non_json"}

ProfileKey(caller) == IF caller = "build_investor_cmd" THEN "investor" ELSE "startup"

fill_defaults(caller, obj) ==
  IF caller = "build_investor_cmd" THEN fill_investor_defaults(obj)
  ELSE fill_startup_defaults(obj)

\* refined.get(key) if refined is a dict holding key, else refined; merged by
\* deep_merge_dict when it is a dict, then fill_*_defaults
merge_refined(caller, out, refined) ==
  LET key == ProfileKey(caller)
      rs == IF IsDict(refined) /\ key \in DOMAIN refined THEN refined[key] ELSE refined
  IN IF IsDict(rs)
     THEN SetKey(out, key, deep_merge_dict(GetOr(out, key, EmptyDict), rs))
     ELSE out

\* a second pass whatever the first pass gave
second_pass_always(caller, second_pass_gemini, used_provider, out) == TRUE

\* second_pass_gemini and used_provider != "gemini" and ratio >= missing_threshold
second_pass_due(caller, second_pass_gemini, used_provider, out) ==
  /\ second_pass_gemini
  /\ used_provider # "gemini"
  /\ IF caller = "build_investor_cmd"
     THEN 100 * critical_missing_count(out.investor, INVESTOR_CRITICAL_PATHS)
            >= INVESTOR_MISSING_THRESHOLD * Len(INVESTOR_CRITICAL_PATHS)
     ELSE 100 * critical_missing_count(out.startup, STARTUP_CRITICAL_PATHS)
            >= STARTUP_MISSING_THRESHOLD * Len(STARTUP_CRITICAL_PATHS)

\* out["metadata"] with the keys of updates set
with_metadata(out, updates) ==
  LET md == IF "metadata" \in DOMAIN out /\ IsDict(out.metadata) THEN out.metadata
            ELSE EmptyDict
  IN SetKey(out, "metadata",
            [k \in DOMAIN md \cup DOMAIN updates |->
               IF k \in DOMAIN updates THEN updates[k] ELSE md[k]])

\* a fallback that keeps the draft and drops the error
heuristic_fallback_silent(caller, base, error) ==
  IF caller = "generate_startup_thesis_profile" THEN base
  ELSE with_metadata(base, [llm_refined |-> B(FALSE)])

\* the except branch of the caller: the heuristic draft with the error noted
heuristic_fallback(caller, base, error) ==
  IF caller = "generate_startup_thesis_profile"
  THEN with_metadata(base, [llm_error |-> S(error)])
  ELSE with_metadata(base, [llm_refined |-> B(FALSE), llm_error |-> S(error)])

\* top_cats of deterministic_reasoning: the category keys by descending
\* weighted_contribution, equal ones in dict order (sorted is stable)
RECURSIVE sorted_by_contribution(_, _, _)
sorted_by_contribution(breakdown, keys, out) ==
  IF keys = <<>> THEN out
  ELSE LET k == Head(keys)
           before == {i \in 1..Len(out) :
                        breakdown[out[i]].weighted_contribution
                          >= breakdown[k].weighted_contribution}
           n == Cardinality(before)
       IN sorted_by_contribution(breakdown, Tail(keys),
            SubSeq(out, 1, n) \o <<k>> \o SubSeq(out, n + 1, Len(out)))

deterministic_reasoning(res, inv_obj, task_list) ==
  LET inv_name(name) == IF Truthy(name) THEN name.v ELSE "the investor"
      fit_if(fit, if_eligible) == IF if_eligible # 0 THEN if_eligible ELSE fit
      Narrative(name, strongest, weakest, top_tasks) ==
        [overall_summary |->
           IF res.eligible
           THEN [eligible |-> TRUE, investor |-> name, score |-> res.fit_score_0_to_100,
                 strongest |-> strongest, weakest |-> weakest]
           ELSE [eligible |-> FALSE, investor |-> name,
                 score |-> fit_if(res.fit_score_0_to_100,
                                  res.fit_score_if_eligible_0_to_100)],
         what_is_working |-> strongest,
         what_is_blocking |-> weakest,
         priority_actions |-> [i \in 1..Len(top_tasks) |-> top_tasks[i].task_title],
         style |-> S("deterministic_fallback")]
      Ranked(top_cats) ==
        Narrative(inv_name(Get(GetOr(inv_obj, "investor", EmptyDict), "name")),
                  SubSeq(top_cats, 1, Min2(2, Len(top_cats))),
                  SubSeq(top_cats, Max2(Len(top_cats) - 1, 1), Len(top_cats)),
                  SubSeq(task_list, 1, Min2(3, Len(task_list))))
  IN Ranked(sorted_by_contribution(
              res.category_breakdown,
              SelectSeq(CATEGORY_KEYS, LAMBDA k : k \in DOMAIN res.category_breakdown),
              <<>>))

\* model or os.getenv(<PROVIDER>_MODEL, default), no model argument and no
\* environment override
MODEL_DEFAULTS ==
  << <<"openai", "gpt-4o-mini">>, <<"kimi", "kimi-k2">>,
     <<"gemini", "gemini-2.5-flash-lite">> >>

\* JSON that is no object, from the json.loads fallback of openai and kimi
NON_OBJECT_RESPONSE == L(<<"n/a">>)

\* JSON provider pr may answer to caller. To a startup refinement: wrapped in
\* "startup" with nulls for unknown fields, bare, with a null for a whole group.
RESPONSES(caller, pr) ==
  LET STARTUP_RESPONSES ==
        { [startup |-> [stage_normalized |-> S("Series A"), hq_country |-> None,
                        raise |-> [target_raise_usd |-> None,
                                   instrument_normalized |-> S("Priced Round")],
                        risk |-> [regulatory_risk_level |-> S("Medium")]]],
          [hq_country |-> S("US"), round_normalized |-> S("seed"),
           traction |-> [primary_signal |-> S("revenue")],
           team |-> [domain_years_avg |-> N(6)]],
          [startup |-> [raise |-> None]],
          [startup |-> [stage_normalized |-> S("pre_seed"),
                        round_normalized |-> S("series_c_plus")]] }
      INVESTOR_RESPONSES ==
        { [investor |-> [check_typical_usd |-> None,
                         stage_focus_normalized |-> L(<<"Series A">>),
                         lead_or_follow |-> S("co-lead"),
                         regulatory_tolerance_level |-> N(2)]],
          [sector_focus_normalized |-> L(<<"FinTech">>),
           geo_focus_normalized |-> L(<<"US">>),
           check_typical_usd |-> N(500),
           instrument_include_normalized |-> L(<<"SAFE">>)],
          [investor |-> [stage_focus_normalized |->
                           L(<<"pre_seed", "seed", "series_c_plus">>)]] }
      REASONING_RESPONSES ==
        { [overall_summary |-> S("A close fit on stage and sector."),
           priority_actions |-> L(<<"Upload the data room">>)] }
  IN (CASE caller = "llm_reasoning" -> REASONING_RESPONSES
        [] caller = "build_investor_cmd" -> INVESTOR_RESPONSES
        [] OTHER -> STARTUP_RESPONSES)
     \cup (IF pr = "gemini" THEN {} ELSE {NON_OBJECT_RESPONSE})

\* the router and one use of it by caller, before its first provider call
new_call(caller, router, provider, second_pass_gemini, base) ==
  [caller |-> caller, router |-> router, provider |-> provider,
   second_pass_gemini |-> second_pass_gemini, base |-> base,
   pass |-> 1,
   order |-> IF router THEN provider_order(provider, TRUE) ELSE <<>>,
   tried |-> <<>>, calls |-> <<>>,
   out |-> base, used_provider |-> "", used_model |-> "",
   second_pass_used |-> FALSE, raised |-> "", final |-> EmptyDict, done |-> FALSE]

\* the last lines of refine_*_with_llm
finish(l) ==
  [l EXCEPT !.final = with_metadata(l.out,
                         [llm_refined |-> B(TRUE), llm_provider |-> S(l.used_provider),
                          llm_model |-> S(l.used_model),
                          second_pass_used |-> B(l.second_pass_used)]),
            !.done = TRUE]

\* a caller that swallows the exception of llm_reasoning without noting it
raised_to_caller_silent(l, error) ==
  [l EXCEPT !.raised = error, !.done = TRUE,
            !.final = IF l.caller = "llm_reasoning"
                      THEN deterministic_reasoning(result, investor_obj, tasks)
                      ELSE heuristic_fallback(l.caller, l.base, error)]

\* an exception that leaves refine_*_with_llm or refine_json and is caught by
\* the caller
raised_to_caller(l, error) ==
  [l EXCEPT !.raised = error, !.done = TRUE,
            !.final = IF l.caller = "llm_reasoning"
                      THEN SetKey(deterministic_reasoning(result, investor_obj, tasks),
                                  "llm_error", S(error))
                      ELSE heuristic_fallback(l.caller, l.base, error)]

\* refine_*_with_llm from the return of the first refine_json to the second
\* refine_json or to its end
first_pass(l, pr, refined) ==
  LET Decided(l1) ==
        IF second_pass_due(l.caller, l.second_pass_gemini, pr, l1.out)
        THEN [l1 EXCEPT !.pass = 2, !.order = provider_order("gemini", FALSE),
                        !.tried = <<>>]
        ELSE finish(l1)
      Merged(filled) ==
        IF filled = Raised
        THEN raised_to_caller(l, "'NoneType' object has no attribute 'setdefault'")
        ELSE Decided([l EXCEPT !.out = filled, !.used_provider = pr,
                               !.used_model = Lookup(MODEL_DEFAULTS, pr)])
  IN Merged(fill_defaults(l.caller, merge_refined(l.caller, l.base, refined)))

\* the try block of the second pass after its refine_json returned
second_pass(l, refined2) ==
  LET rs2(key) == IF IsDict(refined2) /\ key \in DOMAIN refined2 THEN refined2[key]
                  ELSE refined2
      Filled(merged, filled) ==
        IF filled = Raised
        THEN finish([l EXCEPT !.out = with_metadata(merged,
                        [second_pass_error |->
                           S("'NoneType' object has no attribute 'setdefault'")])])
        ELSE finish([l EXCEPT !.out = filled, !.second_pass_used = TRUE,
                              !.used_provider = "gemini",
                              !.used_model = Lookup(MODEL_DEFAULTS, "gemini")])
      Merged(merged) == Filled(merged, fill_defaults(l.caller, merged))
  IN IF ~IsDict(rs2(ProfileKey(l.caller))) THEN finish(l)
     ELSE Merged(merge_refined(l.caller, l.out, refined2))

\* the tail of llm_reasoning after refine_json returned data
narrative(l, pr, data) ==
  [l EXCEPT !.used_provider = pr, !.done = TRUE,
            !.final = IF IsDict(data)
                      THEN [k \in DOMAIN data \cup {"style", "provider", "model"} |->
                              CASE k = "style" -> S("llm_generated")
                                [] k = "provider" -> S(pr)
                                [] k = "model" -> S(Lookup(MODEL_DEFAULTS, pr))
                                [] OTHER -> data[k]]
                      ELSE deterministic_reasoning(result, investor_obj, tasks)]

\* refine_json after every provider of its order failed: RuntimeError
all_failed(l, error) ==
  IF l.caller # "llm_reasoning" /\ l.pass = 2
  THEN finish([l EXCEPT !.out = with_metadata(l.out, [second_pass_error |-> S(error)])])
  ELSE raised_to_caller(l, error)

\* one provider call of refine_json fails: the except branch, and the raise
\* after the loop when it was the last of the order
ProviderFails ==
  /\ pc = "refining"
  /\ Len(llm.tried) < Len(llm.order)
  /\ \E f \in FAILURES :
       LET pr == llm.order[Len(llm.tried) + 1]
           l1 == [llm EXCEPT !.tried = Append(@, pr),
                             !.calls = Append(@, [pass |-> llm.pass, provider |-> pr,
                                                  outcome |-> f, response |-> None])]
       IN llm' = IF Len(l1.tried) < Len(l1.order) THEN l1
                 ELSE all_failed(l1, "All providers failed. Last error: "
                                       \o pr \o " " \o f)
  /\ pc' = IF llm'.done THEN "refined" ELSE "refining"
  /\ UNCHANGED <<startup_obj, investor_obj, rubric, now, edits, result, first_result,
                 max_tasks, tasks,
                 completed_tasks_file, overridden,
                 batch, matches_table, pipeline_status, pipeline_tasks>>

\* one provider call of refine_json returns parsed JSON; refine_json returns
\* it and its caller goes on
ProviderAnswers ==
  /\ pc = "refining"
  /\ Len(llm.tried) < Len(llm.order)
  /\ \E refined \in RESPONSES(llm.caller, llm.order[Len(llm.tried) + 1]) :
       LET pr == llm.order[Len(llm.tried) + 1]
           l1 == [llm EXCEPT !.tried = Append(@, pr),
                             !.calls = Append(@, [pass |-> llm.pass, provider |-> pr,
                                                  outcome |-> "ok",
                                                  response |-> refined])]
       IN llm' = IF llm.caller = "llm_reasoning" THEN narrative(l1, pr, refined)
                 ELSE IF llm.pass = 1 THEN first_pass(l1, pr, refined)
                 ELSE second_pass(l1, refined)
  /\ pc' = IF llm'.done THEN "refined" ELSE "refining"
  /\ UNCHANGED <<startup_obj, investor_obj, rubric, now, edits, result, first_result,
                 max_tasks, tasks,
                 completed_tasks_file, overridden,
                 batch, matches_table, pipeline_status, pipeline_tasks>>

\* refine_json with a provider it does not support: ValueError before any call
UnsupportedProvider ==
  /\ pc = "refining"
  /\ llm.router
  /\ llm.order = <<>>
  /\ llm' = raised_to_caller(llm, "Unsupported provider: " \o llm.provider)
  /\ pc' = "refined"
  /\ UNCHANGED <<startup_obj, investor_obj, rubric, now, edits, result, first_result,
                 max_tasks, tasks,
                 completed_tasks_file, overridden,
                 batch, matches_table, pipeline_status, pipeline_tasks>>

\* llm_reasoning with router None
ReasonWithoutRouter ==
  /\ pc = "refining"
  /\ ~llm.router
  /\ llm' = [llm EXCEPT !.done = TRUE,
                        !.final = deterministic_reasoning(result, investor_obj, tasks)]
  /\ pc' = "refined"
  /\ UNCHANGED <<startup_obj, investor_obj, rubric, now, edits, result, first_result,
                 max_tasks, tasks,
                 completed_tasks_file, overridden,
                 batch, matches_table, pipeline_status, pipeline_tasks>>

InitRefine ==
  LET PROVIDER_ARGS == {"auto", "openai", "kimi", "gemini", "claude"}
      STARTUP_DRAFTS == {StartupBlank, StartupMid, StartupStrong}
      INVESTOR_DRAFTS == {InvestorBlank, InvestorMatch}
  IN
  /\ rubric = None
  /\ batch = None
  /\ matches_table = None
  /\ pipeline_status = None
  /\ pipeline_tasks = None
  /\ completed_tasks_file = None
  /\ overridden = None
  /\ now = 0
  /\ pc = "refining"
  /\ edits = 0
  /\ first_result = None
  /\ max_tasks = DEFAULT_MAX_TASKS
  /\ \/ /\ startup_obj = EmptyDict
        /\ investor_obj = EmptyDict
        /\ result = None
        /\ tasks = <<>>
        /\ \/ \E d \in STARTUP_DRAFTS, p \in PROVIDER_ARGS, sp \in BOOLEAN :
                llm = new_call("build_startup_cmd", TRUE, p, sp,
                               [startup |-> d,
                                metadata |-> [source_files |-> S("startup_kv.json")]])
           \/ \E d \in STARTUP_DRAFTS :
                llm = new_call("generate_startup_thesis_profile", TRUE, "auto", TRUE,
                               [startup |-> d,
                                metadata |-> [source_files |-> S("startup_kv.json")]])
           \/ \E d \in INVESTOR_DRAFTS, p \in PROVIDER_ARGS, sp \in BOOLEAN :
                llm = new_call("build_investor_cmd", TRUE, p, sp,
                               [investor |-> d,
                                metadata |-> [source_file |-> S("investor_data.json")]])
     \/ /\ startup_obj = [startup |-> StartupMid]
        /\ \E inv \in {InvestorMatch, InvestorExcluding} :
             investor_obj = [investor |-> inv]
        /\ result = manual_match(startup_obj, investor_obj, rubric, now)
        /\ tasks = generate_improvement_tasks(result, max_tasks)
        /\ \E r \in BOOLEAN, p \in PROVIDER_ARGS :
             llm = new_call("llm_reasoning", r, p, FALSE, EmptyDict)

NextRefine == ProviderFails \/ ProviderAnswers \/ UnsupportedProvider \/ ReasonWithoutRouter

SpecRefine == InitRefine /\ [][NextRefine]_vars

-----------------------------------------------------------------------------
(* Properties                                                              *)

Matched == pc \in {"matched", "rerun"}

\* the conditions each sub-rule declares, in their order, with their points:
\* <<sub-rule key, maximum points, << <<condition, points>>, ... >> >>
DECLARED_CONDITIONS ==
  <<
  <<"A1_stage_alignment", 30,
       <<
          <<"startup.stage_normalized IN investor.stage_focus_normalized", 30>>,
          <<"startup.round_normalized IN investor.stage_focus_normalized", 26>>,
          <<"adjacent_stage(startup.stage_normalized, investor.stage_focus_normalized)", 20>>,
          <<"startup.stage_normalized IN investor.stage_exclude_normalized", 0>>,
          <<"missing(startup.stage_normalized) OR empty(investor.stage_focus_normalized)", 6>>,
          <<"default_non_focus_stage", 10>> >> >>,
  <<"A2_check_size_compatibility", 30,
       <<
          <<"range_overlap([startup.raise.min_ticket_usd, startup.raise.max_ticket_usd], [investor.check_min_usd, investor.check_max_usd])", 30>>,
          <<"investor.check_typical_usd BETWEEN startup.raise.min_ticket_usd AND startup.raise.max_ticket_usd", 26>>,
          <<"investor.check_typical_usd >= 0.01 * startup.raise.target_raise_usd", 22>>,
          <<"investor.check_typical_usd >= 0.005 * startup.raise.target_raise_usd", 16>>,
          <<"investor.check_max_usd < startup.raise.min_ticket_usd", 0>>,
          <<"missing(startup.raise.target_raise_usd) OR missing(investor.check_max_usd)", 6>>,
          <<"default_low_coverage", 8>> >> >>,
  <<"A3_geography_jurisdiction_fit", 25,
       <<
          <<"overlap(startup.target_geographies, investor.geo_focus_normalized)", 25>>,
          <<"overlap(startup.operating_geographies, investor.geo_focus_normalized)", 21>>,
          <<"startup.hq_country IN investor.geo_focus_normalized", 18>>,
          <<"investor.remote_ok == true", 16>>,
          <<"investor.geo_hard_constraint == true AND NOT overlap(startup.target_geographies OR startup.operating_geographies OR startup.hq_country, investor.geo_focus_normalized)", 0>>,
          <<"missing(startup.hq_country) OR empty(investor.geo_focus_normalized)", 5>>,
          <<"default_outside_preference", 9>> >> >>,
  <<"A4_deal_leadership_preference_fit", 20,
       <<
          <<"startup.deal_preferences.needs_lead == true AND investor.lead_or_follow IN ['lead','both']", 20>>,
          <<"startup.deal_preferences.only_followers == true AND investor.lead_or_follow IN ['follow','both']", 18>>,
          <<"investor.lead_or_follow == 'both'", 16>>,
          <<"investor.lead_follow_strict == true AND strict_role_conflict(startup.deal_preferences, investor.lead_or_follow)", 0>>,
          <<"missing(startup.deal_preferences.needs_lead) OR missing(investor.lead_or_follow)", 5>>,
          <<"default_role_friction", 9>> >> >>,
  <<"A5_investment_instrument_fit", 20,
       <<
          <<"startup.raise.instrument_normalized IN investor.instrument_include_normalized", 20>>,
          <<"empty(investor.instrument_include_normalized)", 14>>,
          <<"startup.raise.instrument_normalized IN investor.instrument_exclude_normalized", 0>>,
          <<"missing(startup.raise.instrument_normalized) OR empty(investor.instrument_include_normalized)", 5>>,
          <<"default_unlisted_instrument", 8>> >> >>,
  <<"B1_sector_focus_alignment", 30,
       <<
          <<"count_overlap(startup.sectors_normalized, investor.sector_focus_normalized) >= 2", 30>>,
          <<"count_overlap(startup.sectors_normalized, investor.sector_focus_normalized) == 1", 24>>,
          <<"count_overlap(startup.subsectors_normalized, investor.sector_focus_normalized) >= 1", 18>>,
          <<"overlap(startup.sectors_normalized, investor.sector_exclude_normalized)", 0>>,
          <<"missing(startup.sectors_normalized) OR empty(investor.sector_focus_normalized)", 6>>,
          <<"default_no_overlap", 10>> >> >>,
  <<"B2_business_model_fit", 20,
       <<
          <<"startup.business_model.primary IN investor.business_models_include", 20>>,
          <<"startup.business_model.is_b2b == true AND investor.prefers_b2b == true", 17>>,
          <<"startup.business_model.is_b2c == true AND investor.prefers_b2c == true", 17>>,
          <<"startup.business_model.primary IN investor.business_models_exclude", 0>>,
          <<"missing(startup.business_model.primary)", 5>>,
          <<"default_model_misalignment", 8>> >> >>,
  <<"C1_traction_evidence_type", 30,
       <<
          <<"startup.stage_normalized IN ['seed','series_a','series_b'] AND (startup.traction.arr_usd > 0 OR startup.traction.revenue_ttm_usd > 0) AND startup.traction.evidence_links_count >= 1", 30>>,
          <<"startup.traction.primary_signal IN ['paying_customers','revenue','arr'] AND startup.traction.evidence_links_count >= 1", 26>>,
          <<"startup.traction.primary_signal IN ['pilots','lois'] AND startup.traction.evidence_links_count >= 1", 20>>,
          <<"startup.traction.primary_signal IN ['waitlist','engagement']", 12>>,
          <<"startup.traction.primary_signal IN ['none','unknown']", 0>>,
          <<"missing(startup.traction.primary_signal)", 6>>,
          <<"default_other_signal", 10>> >> >>,
  <<"C2_traction_momentum", 20,
       <<
          <<"startup.traction.mom_growth_pct_3m_avg >= 10 OR startup.traction.yoy_growth_pct >= 50", 20>>,
          <<"startup.traction.mom_growth_pct_3m_avg >= 5 OR startup.traction.yoy_growth_pct >= 20", 16>>,
          <<"startup.traction.mom_growth_pct_3m_avg >= 0", 10>>,
          <<"startup.traction.mom_growth_pct_3m_avg < 0 OR startup.traction.yoy_growth_pct < 0", 0>>,
          <<"missing(startup.traction.mom_growth_pct_3m_avg) AND missing(startup.traction.yoy_growth_pct)", 4>>,
          <<"default_momentum_mid", 8>> >> >>,
  <<"C3_milestones_vs_next_stage", 25,
       <<
          <<"startup.milestones.quantified_count >= 3 AND startup.milestones.stage_linked == true", 25>>,
          <<"startup.milestones.quantified_count >= 2", 18>>,
          <<"startup.milestones.quantified_count == 1", 10>>,
          <<"startup.milestones.quantified_count == 0", 0>>,
          <<"missing(startup.milestones.quantified_count)", 5>>,
          <<"default_milestone_mid", 8>> >> >>,
  <<"D1_team_completeness_vs_stage", 25,
       <<
          <<"startup.team.core_roles_covered_pct >= 0.9", 25>>,
          <<"startup.team.core_roles_covered_pct >= 0.7", 18>>,
          <<"startup.team.core_roles_covered_pct >= 0.4", 10>>,
          <<"startup.team.core_roles_covered_pct < 0.4", 0>>,
          <<"missing(startup.team.core_roles_covered_pct)", 5>> >> >>,
  <<"D2_domain_execution_evidence", 30,
       <<
          <<"startup.team.prior_exit_count >= 1 OR startup.team.domain_years_avg >= 8", 30>>,
          <<"startup.team.domain_years_avg >= 5", 24>>,
          <<"startup.team.domain_years_avg >= 3", 18>>,
          <<"startup.team.domain_years_avg >= 1", 10>>,
          <<"startup.team.domain_years_avg < 1", 4>>,
          <<"missing(startup.team.domain_years_avg)", 6>> >> >>,
  <<"D3_coachability_signals", 20,
       <<
          <<"startup.signals.negative_reference_flag == true", 0>>,
          <<"startup.signals.responsiveness_days <= 3 AND startup.signals.reference_count >= 2", 20>>,
          <<"startup.signals.responsiveness_days <= 7 AND startup.signals.reference_count >= 1", 15>>,
          <<"startup.signals.responsiveness_days <= 14", 9>>,
          <<"missing(startup.signals.responsiveness_days)", 4>> >> >>,
  <<"E1_regulatory_exposure_vs_tolerance", 30,
       <<
          <<"startup.risk.regulatory_domain IN investor.regulatory_exclude", 0>>,
          <<"startup.risk.regulatory_risk_level <= investor.regulatory_tolerance_level", 30>>,
          <<"startup.risk.regulatory_risk_level == investor.regulatory_tolerance_level + 1 AND startup.risk.mitigation_plan_present == true", 20>>,
          <<"startup.risk.regulatory_risk_level > investor.regulatory_tolerance_level", 8>>,
          <<"missing(startup.risk.regulatory_risk_level) OR missing(investor.regulatory_tolerance_level)", 5>> >> >>,
  <<"E2_defensibility_vs_preference", 25,
       <<
          <<"startup.moat.score >= max(0.8, investor.defensibility_preference_min_score)", 25>>,
          <<"startup.moat.score >= max(0.6, investor.defensibility_preference_min_score)", 18>>,
          <<"startup.moat.score >= 0.4", 10>>,
          <<"startup.moat.score < 0.4", 4>>,
          <<"missing(startup.moat.score)", 5>> >> >>,
  <<"E3_time_horizon_risk_concentration", 20,
       <<
          <<"startup.risk.time_to_liquidity_years BETWEEN investor.time_horizon_min_years AND investor.time_horizon_max_years AND startup.risk.capital_intensity_level <= investor.capital_intensity_tolerance_level", 20>>,
          <<"abs_distance_to_range(startup.risk.time_to_liquidity_years, [investor.time_horizon_min_years, investor.time_horizon_max_years]) <= 2", 14>>,
          <<"startup.risk.capital_intensity_level > investor.capital_intensity_tolerance_level", 6>>,
          <<"abs_distance_to_range(startup.risk.time_to_liquidity_years, [investor.time_horizon_min_years, investor.time_horizon_max_years]) > 2", 6>>,
          <<"missing(startup.risk.time_to_liquidity_years) OR missing(investor.time_horizon_min_years)", 4>> >> >>,
  <<"F1_pitch_deck_availability", 20,
       <<
          <<"startup.artifacts.pitch_deck_uploaded == true AND startup.artifacts.pitch_deck_completeness_score >= 0.8", 20>>,
          <<"startup.artifacts.pitch_deck_uploaded == true AND startup.artifacts.pitch_deck_completeness_score >= 0.6", 15>>,
          <<"startup.artifacts.pitch_deck_uploaded == true", 9>>,
          <<"investor.requires_pitch_deck == true AND startup.artifacts.pitch_deck_uploaded == false", 0>>,
          <<"missing(startup.artifacts.pitch_deck_uploaded)", 4>> >> >>,
  <<"F2_data_room_artifacts", 35,
       <<
          <<"artifact_count_present(startup.artifacts.data_room_url, startup.artifacts.cap_table_uploaded, startup.artifacts.financial_model_uploaded, startup.artifacts.customer_metrics_uploaded, startup.artifacts.pitch_deck_uploaded) == 5", 35>>,
          <<"artifact_count_present(startup.artifacts.data_room_url, startup.artifacts.cap_table_uploaded, startup.artifacts.financial_model_uploaded, startup.artifacts.customer_metrics_uploaded, startup.artifacts.pitch_deck_uploaded) == 4", 28>>,
          <<"artifact_count_present(startup.artifacts.data_room_url, startup.artifacts.cap_table_uploaded, startup.artifacts.financial_model_uploaded, startup.artifacts.customer_metrics_uploaded, startup.artifacts.pitch_deck_uploaded) == 3", 20>>,
          <<"artifact_count_present(startup.artifacts.data_room_url, startup.artifacts.cap_table_uploaded, startup.artifacts.financial_model_uploaded, startup.artifacts.customer_metrics_uploaded, startup.artifacts.pitch_deck_uploaded) IN [1,2]", 10>>,
          <<"investor.requires_data_room == true AND artifact_count_present(startup.artifacts.data_room_url, startup.artifacts.cap_table_uploaded, startup.artifacts.financial_model_uploaded, startup.artifacts.customer_metrics_uploaded, startup.artifacts.pitch_deck_uploaded) == 0", 0>>,
          <<"missing(startup.artifacts.data_room_url) AND missing(startup.artifacts.cap_table_uploaded)", 6>> >> >>,
  <<"F3_timeline_compatibility", 20,
       <<
          <<"investor.decision_speed_days <= startup.deal_preferences.timeline_to_close_days", 20>>,
          <<"investor.decision_speed_days <= startup.deal_preferences.timeline_to_close_days + 14", 14>>,
          <<"investor.decision_speed_days <= startup.deal_preferences.timeline_to_close_days + 45", 8>>,
          <<"investor.decision_speed_days > startup.deal_preferences.timeline_to_close_days + 45", 0>>,
          <<"missing(investor.decision_speed_days) OR missing(startup.deal_preferences.timeline_to_close_days)", 4>> >> >> >>

\* the profiles manual_match scores
StartupOf == Unwrap(startup_obj, "startup")
InvestorOf == Unwrap(investor_obj, "investor")

\* C1: manual_match returns fit_score_0_to_100 = 0 whenever eligible is false
\* and fit_score_0_to_100 = fit_score_if_eligible_0_to_100 whenever eligible is
\* true; fit_score_if_eligible_0_to_100 is the sum of the six categories'
\* weighted_contribution whatever the eligibility, and the full
\* category_breakdown (six categories, nineteen sub-rules) is returned in both
\* cases.
C1_FitScoreByEligibility ==
  Matched =>
    LET b == result.category_breakdown
    IN /\ ~result.eligible => result.fit_score_0_to_100 = 0
       /\ result.eligible =>
            result.fit_score_0_to_100 = result.fit_score_if_eligible_0_to_100
       /\ result.fit_score_if_eligible_0_to_100 =
            b.deal_compatibility.weighted_contribution
            + b.sector_business_model_fit.weighted_contribution
            + b.traction_vs_thesis_bar.weighted_contribution
            + b.founder_team_fit.weighted_contribution
            + b.risk_regulatory_alignment.weighted_contribution
            + b.diligence_process_fit.weighted_contribution
       /\ DOMAIN b = SeqToSet(CATEGORY_KEYS)
       /\ Cardinality(UNION {DOMAIN b[ck].subcategories : ck \in DOMAIN b}) = 19

\* an ineligible pair whose category math gives a positive score
C1_Witness ==
  /\ pc = "matched"
  /\ ~result.eligible
  /\ result.fit_score_if_eligible_0_to_100 > 0
  /\ result.fit_score_0_to_100 = 0

\* C2: with the built-in category maxima and weights (no rubric) both
\* fit_score_0_to_100 and fit_score_if_eligible_0_to_100 lie in [0, 100].
C2_ScoresWithin0To100 ==
  (Matched /\ rubric = None) =>
    /\ 0 <= result.fit_score_0_to_100
    /\ result.fit_score_0_to_100 <= 100 * Scale
    /\ 0 <= result.fit_score_if_eligible_0_to_100
    /\ result.fit_score_if_eligible_0_to_100 <= 100 * Scale

\* an eligible pair without rubric that scores 85 or more
C2_Witness ==
  /\ pc = "matched"
  /\ rubric = None
  /\ result.eligible
  /\ result.fit_score_0_to_100 >= 85 * Scale

\* the rubric's option values each lie within [0, maximum_points] of their own
\* sub-rule (the built-in maximum where the rubric gives none)
RubricOptionsWithinMax ==
  LET subrules == build_rubric_index(rubric).subrules
  IN \A sk \in DOMAIN subrules :
       \A c \in DOMAIN subrules[sk].options :
         LET val == subrules[sk].options[c]
             mx == subrules[sk].maximum_points
         IN /\ ~IsNone(val)
            /\ 0 <= val.v
            /\ \E i \in 1..Len(DECLARED_CONDITIONS) :
                 /\ DECLARED_CONDITIONS[i][1] = sk
                 /\ val.v <= (IF IsNone(mx) THEN DECLARED_CONDITIONS[i][2] ELSE mx.v)

\* C3: every sub-rule result of the category_breakdown has
\* 0 <= points <= max_points, with the built-in point tables and also after
\* apply_rubric_points with a rubric whose option values each lie within
\* [0, maximum_points] of their own sub-rule.
C3_PointsWithinMax ==
  (Matched /\ RubricOptionsWithinMax) =>
    \A ck \in DOMAIN result.category_breakdown :
      \A sk \in DOMAIN result.category_breakdown[ck].subcategories :
        LET sv == result.category_breakdown[ck].subcategories[sk]
        IN 0 <= sv.points /\ sv.points <= sv.max_points

\* a Match Result with its timestamp blanked
WithoutTimestamp(r) == [r EXCEPT !.generated_at_utc = 0]

GATE_REASONS ==
  <<"Investor is not active.",
    "Investor max check is below startup minimum acceptable check.",
    "Startup falls in investor explicit geography exclusion.",
    "Startup sector explicitly excluded by investor.",
    "Startup business model explicitly excluded by investor.",
    "Startup instrument explicitly excluded by investor.",
    "Regulatory domain explicitly excluded by investor.",
    "Investor has hard geography constraint and startup is outside allowed geography.">>

GateFailed(k) ==
  CASE k = 1 -> gate_inactive(StartupOf, InvestorOf)
    [] k = 2 -> gate_check_size(StartupOf, InvestorOf)
    [] k = 3 -> gate_geo_exclude(StartupOf, InvestorOf)
    [] k = 4 -> gate_sector_exclude(StartupOf, InvestorOf)
    [] k = 5 -> gate_business_model(StartupOf, InvestorOf)
    [] k = 6 -> gate_instrument(StartupOf, InvestorOf)
    [] k = 7 -> gate_regulatory(StartupOf, InvestorOf)
    [] k = 8 -> gate_geo_hard(StartupOf, InvestorOf)

\* C5: eligible is true iff no gate fails, gate_fail_reasons holds exactly one
\* reason per failed gate in gate-declaration order, and an investor whose
\* active_status is not "active" yields "Investor is not active." and a final
\* score of 0.
C5_GateReasonsInOrder ==
  Matched =>
    LET fails == result.gate_fail_reasons
        failed == {k \in 1..Len(GATE_REASONS) : GateFailed(k)}
    IN /\ result.eligible <=> failed = {}
       /\ Len(fails) = Cardinality(failed)
       /\ \A k \in failed :
            fails[Cardinality({j \in failed : j <= k})] = GATE_REASONS[k]
       /\ norm_text(Get(InvestorOf, "active_status")) # "active" =>
            /\ fails # <<>>
            /\ fails[1] = "Investor is not active."
            /\ result.fit_score_0_to_100 = 0

\* an inactive investor that fails a second gate as well
C5_Witness ==
  /\ pc = "matched"
  /\ Len(result.gate_fail_reasons) >= 2
  /\ result.gate_fail_reasons[1] = "Investor is not active."
  /\ result.fit_score_if_eligible_0_to_100 > 0
  /\ result.fit_score_0_to_100 = 0

\* the sum of the points of a category's sub-rule results
RECURSIVE PointsOf(_, _)
PointsOf(subs, keys) ==
  IF keys = {} THEN 0
  ELSE LET k == CHOOSE x \in keys : TRUE
       IN subs[k].points + PointsOf(subs, keys \ {k})

\* v is n / d rounded to the nearest whole number (d > 0)
IsRounded(v, n, d) == 2 * Abs(v * d - n) <= d

\* C6: in every category summary raw_points is the sum of the category's
\* sub-rule points, percent is raw_points / max_point x 100 (0 when
\* max_point <= 0) and weighted_contribution is percent / 100 x weight, each
\* rounded to four decimals.
C6_CategoryArithmetic ==
  Matched =>
    \A ck \in DOMAIN result.category_breakdown :
      LET c == result.category_breakdown[ck]
      IN /\ c.raw_points = PointsOf(c.subcategories, DOMAIN c.subcategories)
         /\ IF c.max_point > 0
            THEN /\ IsRounded(c.percent, c.raw_points * 100 * Scale, c.max_point)
                 /\ IsRounded(c.weighted_contribution,
                              c.raw_points * c.weight * Scale, c.max_point)
                 /\ 2 * Abs(100 * c.weighted_contribution - c.percent * c.weight)
                      <= 100 + c.weight
            ELSE c.percent = 0 /\ c.weighted_contribution = 0

\* a rubric sets a category's maximum to 0 while its sub-rules score points,
\* and another category's percent is not a whole number
C6_Witness ==
  /\ pc = "matched"
  /\ \E ck \in DOMAIN result.category_breakdown :
       /\ result.category_breakdown[ck].max_point = 0
       /\ result.category_breakdown[ck].raw_points > 0
  /\ \E ck \in DOMAIN result.category_breakdown :
       result.category_breakdown[ck].percent % Scale # 0

\* the conditions of A1 in their declared order, each with its predicate
A1_DECLARED ==
  LET s_stage == Get(StartupOf, "stage_normalized")
      s_round == Get(StartupOf, "round_normalized")
      focus == Get(InvestorOf, "stage_focus_normalized")
      excl == Get(InvestorOf, "stage_exclude_normalized")
  IN << <<"startup.stage_normalized IN investor.stage_focus_normalized",
          Truthy(s_stage) /\ norm_text(s_stage) \in list_norm_set(focus)>>,
        <<"startup.round_normalized IN investor.stage_focus_normalized",
          Truthy(s_round) /\ norm_text(s_round) \in list_norm_set(focus)>>,
        <<"adjacent_stage(startup.stage_normalized, investor.stage_focus_normalized)",
          adjacent_stage(s_stage, to_list(focus))>>,
        <<"startup.stage_normalized IN investor.stage_exclude_normalized",
          Truthy(s_stage) /\ norm_text(s_stage) \in list_norm_set(excl)>>,
        <<"missing(startup.stage_normalized) OR empty(investor.stage_focus_normalized)",
          is_missing(s_stage) \/ to_list(focus) = <<>> >>,
        <<"default_non_focus_stage", TRUE>> >>

\* C7: every category scorer returns a result for each of its declared
\* sub-rule keys, nineteen in all, each resolved to exactly one of the
\* conditions the sub-rule declares (with that condition's points when no
\* rubric overrides them); A1 resolves to the first of stage in focus, round in
\* focus, adjacent stage, stage excluded, missing inputs, default whose
\* predicate is true.
C7_FirstMatchingCondition ==
  Matched =>
    LET subs == UNION {{<<ck, sk>> : sk \in DOMAIN result.category_breakdown[ck].subcategories} :
                        ck \in DOMAIN result.category_breakdown}
        sub(p) == result.category_breakdown[p[1]].subcategories[p[2]]
        a1 == result.category_breakdown.deal_compatibility.subcategories.A1_stage_alignment
    IN /\ {p[2] : p \in subs} = {DECLARED_CONDITIONS[i][1] : i \in 1..Len(DECLARED_CONDITIONS)}
       /\ Cardinality(subs) = 19
       /\ \A p \in subs :
            \E i \in 1..Len(DECLARED_CONDITIONS) :
              /\ DECLARED_CONDITIONS[i][1] = p[2]
              /\ Cardinality({j \in 1..Len(DECLARED_CONDITIONS[i][3]) :
                    DECLARED_CONDITIONS[i][3][j][1] = sub(p).matched_condition}) = 1
              /\ rubric = None =>
                   \E j \in 1..Len(DECLARED_CONDITIONS[i][3]) :
                     /\ DECLARED_CONDITIONS[i][3][j][1] = sub(p).matched_condition
                     /\ DECLARED_CONDITIONS[i][3][j][2] = sub(p).points
                     /\ DECLARED_CONDITIONS[i][2] = sub(p).max_points
       /\ \E i \in 1..Len(A1_DECLARED) :
            /\ A1_DECLARED[i][2]
            /\ \A j \in 1..(i - 1) : ~A1_DECLARED[j][2]
            /\ a1.matched_condition = A1_DECLARED[i][1]

\* stage and round are both in the investor's focus and A1 resolves to the
\* stage condition
C7_Witness ==
  /\ pc = "matched"
  /\ A1_DECLARED[1][2]
  /\ A1_DECLARED[2][2]
  /\ result.category_breakdown.deal_compatibility.subcategories.A1_stage_alignment.matched_condition
       = A1_DECLARED[1][1]

\* the engine's own result of sub-rule sk of category ck
EngineResult(ck, sk) == score_category(ck, StartupOf, InvestorOf)[sk]

\* the rubric has an option for the condition sub-rule sk resolved to
RubricHasOption(ck, sk) ==
  LET subrules == build_rubric_index(rubric).subrules
  IN /\ sk \in DOMAIN subrules
     /\ normalize_condition_key(EngineResult(ck, sk).matched_condition)
          \in DOMAIN subrules[sk].options

\* C8: when the rubric defines a sub-rule but its options lack the sub-rule's
\* matched condition, or the rubric does not define the sub-rule at all, the
\* returned points and max_points are those the engine computed.
C8_UnmatchedKeepsEngineValues ==
  Matched =>
    \A ck \in DOMAIN result.category_breakdown :
      \A sk \in DOMAIN result.category_breakdown[ck].subcategories :
        ~RubricHasOption(ck, sk) =>
          /\ result.category_breakdown[ck].subcategories[sk].points
               = EngineResult(ck, sk).points
          /\ result.category_breakdown[ck].subcategories[sk].max_points
               = EngineResult(ck, sk).max_points

\* the number the rubric supplies for a category's field, else the built-in one
SuppliedOr(ck, field, builtin) ==
  LET cats == rubric_categories(rubric)
      given == {i \in 1..Len(cats) :
                  /\ cats[i][1] = ck
                  /\ field \in DOMAIN cats[i][2]
                  /\ cats[i][2][field].t = "num"}
  IN IF given = {} THEN builtin ELSE cats[CHOOSE i \in given : TRUE][2][field].v

\* the rubric maps option default_non_focus_stage of A1_stage_alignment to 3
RubricA1DefaultIs3 ==
  LET subrules == build_rubric_index(rubric).subrules
  IN /\ "A1_stage_alignment" \in DOMAIN subrules
     /\ "default_non_focus_stage" \in DOMAIN subrules["A1_stage_alignment"].options
     /\ subrules["A1_stage_alignment"].options["default_non_focus_stage"] = N(3)

\* C9: when the rubric maps option default_non_focus_stage of A1 to 3 and the
\* pair resolves A1 to that condition, the returned A1 points is 3, and
\* deal_compatibility's raw_points, percent and weighted_contribution are
\* computed from it with the rubric's category maximum and weight when the
\* rubric supplies them, the built-in 125 and 35 otherwise.
C9_ScenarioD ==
  LET deal == result.category_breakdown.deal_compatibility
      a1 == deal.subcategories.A1_stage_alignment
  IN (Matched /\ RubricA1DefaultIs3 /\ a1.matched_condition = "default_non_focus_stage") =>
       LET mp == SuppliedOr("deal_compatibility", "maximum_point", 125)
           wt == SuppliedOr("deal_compatibility", "weight", 35)
       IN /\ a1.points = 3
          /\ deal.raw_points =
               3 + deal.subcategories.A2_check_size_compatibility.points
                 + deal.subcategories.A3_geography_jurisdiction_fit.points
                 + deal.subcategories.A4_deal_leadership_preference_fit.points
                 + deal.subcategories.A5_investment_instrument_fit.points
          /\ deal.max_point = mp
          /\ deal.weight = wt
          /\ IsRounded(deal.percent, deal.raw_points * 100 * Scale, mp)
          /\ IsRounded(deal.weighted_contribution, deal.raw_points * wt * Scale, mp)

\* Scenario D under a rubric that brings its own category maximum and weight
C9_Witness ==
  /\ pc = "matched"
  /\ RubricA1DefaultIs3
  /\ SuppliedOr("deal_compatibility", "maximum_point", 125) = 100
  /\ result.category_breakdown.deal_compatibility.subcategories.A1_stage_alignment.matched_condition
       = "default_non_focus_stage"
  /\ result.category_breakdown.deal_compatibility.subcategories.A1_stage_alignment.points = 3

\* C10: the list returned by generate_improvement_tasks is sorted
\* non-increasing by task_value, holds no two tasks of the same title (of the
\* candidates of one title one of the highest task_value is kept), has at most
\* max_tasks entries, and every task_value in it is >= 0.
C10_TaskListShape ==
  pc = "tasked" =>
    LET cands == candidate_tasks(result)
    IN /\ \A i, j \in 1..Len(tasks) : i < j => tasks[i].task_value >= tasks[j].task_value
       /\ \A i, j \in 1..Len(tasks) : i # j => tasks[i].task_title # tasks[j].task_title
       /\ Len(tasks) <= max_tasks
       /\ \A i \in 1..Len(tasks) : tasks[i].task_value >= 0
       /\ \A i \in 1..Len(tasks) :
            /\ \E c \in 1..Len(cands) : cands[c] = tasks[i]
            /\ \A c \in 1..Len(cands) :
                 cands[c].task_title = tasks[i].task_title
                   => cands[c].task_value <= tasks[i].task_value

\* a later candidate of a title beat an earlier one, a task of value 0 was
\* sorted, and the list was cut to max_tasks
C10_Witness ==
  /\ pc = "tasked"
  /\ LET cands == candidate_tasks(result)
     IN /\ \E c, d \in 1..Len(cands) :
             /\ c < d
             /\ cands[c].task_title = cands[d].task_title
             /\ cands[c].task_value < cands[d].task_value
             /\ \E i \in 1..Len(tasks) : tasks[i] = cands[d]
        /\ Cardinality({cands[c].task_title : c \in 1..Len(cands)}) > max_tasks
  /\ Len(tasks) = max_tasks
  /\ max_tasks >= 2
  /\ tasks[Len(tasks)].task_value < tasks[1].task_value

\* the returned list holds the hard_gate task of the i-th failed gate
HasGateTask(i) ==
  LET k == Len(result.gate_fail_reasons)
      title == gate_task_template(clean_str(result.gate_fail_reasons[i])).task_title
  IN \E j \in 1..Len(tasks) :
       /\ tasks[j].task_type = "hard_gate"
       /\ tasks[j].task_title = title
       /\ IsRounded(tasks[j].task_value, result.fit_score_if_eligible_0_to_100, k)

\* C11 (as stated): with k >= 1 failed hard gates the returned task list holds
\* one hard_gate task for every failed gate, each valued at
\* fit_score_if_eligible_0_to_100 / k.
C11_GateTaskPerFailedGate ==
  Matched => \A i \in 1..Len(result.gate_fail_reasons) : HasGateTask(i)

\* C11 (amended): every failed gate has its hard_gate task, valued at
\* fit_score_if_eligible_0_to_100 / k rounded to 4 decimals, in the returned
\* list, unless the final truncation cut it: then the list is full
\* (max_tasks tasks) and none of its tasks is valued below that quotient.
C11_GateTaskUnlessTruncated ==
  Matched =>
    LET k == Len(result.gate_fail_reasons)
        fit == result.fit_score_if_eligible_0_to_100
    IN \A i \in 1..k :
         \/ HasGateTask(i)
         \/ /\ Len(tasks) = max_tasks
            /\ \A j \in 1..Len(tasks) : 2 * (fit - k * tasks[j].task_value) <= k

C11_Witness ==
  /\ Matched
  /\ \E i \in 1..Len(result.gate_fail_reasons) : HasGateTask(i)
  /\ \E i \in 1..Len(result.gate_fail_reasons) : ~HasGateTask(i)

\* the positions of the returned list that hold the score_improvement task of
\* sub-rule sk of category ck
TasksOfSubrule(ck, sk) ==
  {j \in 1..Len(tasks) : /\ tasks[j].task_type = "score_improvement"
                         /\ tasks[j].category_key = ck
                         /\ tasks[j].subcategory_key = sk}

\* C12: every sub-rule of the category breakdown with points < max_points has,
\* unless the final truncation to max_tasks cut it, a score_improvement task
\* with task_points = max_points - points and
\* task_value = task_points / category max_point x category weight (rounded to
\* four decimals, a category max_point of 0 counting as 1); a sub-rule with
\* points >= max_points has none.
C12_SubruleGapTasks ==
  Matched =>
    \A ck \in DOMAIN result.category_breakdown :
      LET cat == result.category_breakdown[ck]
          cat_max == IF cat.max_point = 0 THEN 1 ELSE cat.max_point
      IN \A sk \in DOMAIN cat.subcategories :
           LET gap == cat.subcategories[sk].max_points - cat.subcategories[sk].points
               mine == TasksOfSubrule(ck, sk)
           IN IF gap > 0
              THEN \/ /\ Cardinality(mine) = 1
                      /\ \A j \in mine :
                           /\ tasks[j].task_points = gap
                           /\ IsRounded(tasks[j].task_value, gap * cat.weight * Scale, cat_max)
                 \/ /\ mine = {}
                    /\ Len(tasks) = max_tasks
                    /\ \A j \in 1..Len(tasks) :
                         tasks[j].task_value >= (gap * cat.weight * Scale) \div cat_max
              ELSE mine = {}

C12_Witness ==
  /\ Matched
  /\ \E ck \in DOMAIN result.category_breakdown :
       LET subs == result.category_breakdown[ck].subcategories
       IN /\ \E sk \in DOMAIN subs :
               subs[sk].points < subs[sk].max_points /\ TasksOfSubrule(ck, sk) # {}
          /\ \E sk \in DOMAIN subs :
               subs[sk].points < subs[sk].max_points /\ TasksOfSubrule(ck, sk) = {}
          /\ \E sk \in DOMAIN subs : subs[sk].points >= subs[sk].max_points

\* startup min_ticket_usd = 500,000 against investor check_max_usd = 200,000
ScenarioC ==
  /\ Matched
  /\ StartupOf.raise.min_ticket_usd = N(500)
  /\ InvestorOf.check_max_usd = N(200)

\* the Match Result as it would be had no hard gate failed
AsEligible(res) == [res EXCEPT !.eligible = TRUE, !.gate_fail_reasons = <<>>]

HasGap(res) ==
  \E ck \in DOMAIN res.category_breakdown :
    \E sk \in DOMAIN res.category_breakdown[ck].subcategories :
      LET sv == res.category_breakdown[ck].subcategories[sk]
      IN sv.points < sv.max_points

\* C13: with startup min_ticket_usd = 500,000 and investor check_max_usd =
\* 200,000 the match is ineligible with the reason "Investor max check is below
\* startup minimum acceptable check.", and the task list still holds
\* score_improvement tasks for the sub-rules with a gap, each one equal in
\* task_points and task_value to the task the same category breakdown yields
\* for an eligible pair.
C13_ScenarioC ==
  ScenarioC =>
    /\ result.eligible = FALSE
    /\ result.fit_score_0_to_100 = 0
    /\ \E i \in 1..Len(result.gate_fail_reasons) :
         result.gate_fail_reasons[i] = GATE_REASONS[2]
    /\ HasGap(result) => \E j \in 1..Len(tasks) : tasks[j].task_type = "score_improvement"
    /\ LET as_eligible == generate_improvement_tasks(AsEligible(result), max_tasks)
       IN \A j \in 1..Len(tasks) :
            tasks[j].task_type = "score_improvement" =>
              \E e \in 1..Len(as_eligible) : as_eligible[e] = tasks[j]

C13_Witness ==
  /\ ScenarioC
  /\ rubric # None
  /\ \E j \in 1..Len(tasks) : tasks[j].task_type = "hard_gate"
  /\ \E j \in 1..Len(tasks) :
       tasks[j].task_type = "score_improvement" /\ tasks[j].task_value > 0

\* the startup's stage_normalized is one of the entries of the investor's
\* stage_focus_normalized list
StageInFocus ==
  LET s_stage == Get(StartupOf, "stage_normalized")
      i_focus == Get(InvestorOf, "stage_focus_normalized")
  IN /\ s_stage.t = "str"
     /\ i_focus.t = "list"
     /\ \E i \in 1..Len(i_focus.v) : i_focus.v[i] = s_stage.v

\* [min_ticket_usd, max_ticket_usd] and [check_min_usd, check_max_usd] have a
\* point in common
TicketsOverlap ==
  LET s_min == Get(GetOr(StartupOf, "raise", EmptyDict), "min_ticket_usd")
      s_max == Get(GetOr(StartupOf, "raise", EmptyDict), "max_ticket_usd")
      i_min == Get(InvestorOf, "check_min_usd")
      i_max == Get(InvestorOf, "check_max_usd")
  IN /\ \A x \in {s_min, s_max, i_min, i_max} : x.t = "num"
     /\ \E x \in Max2(s_min.v, i_min.v)..Min2(s_max.v, i_max.v) : TRUE

IsFull30(rule) == rule.points = 30 /\ rule.max_points = 30

\* C14: whenever the startup's stage_normalized is in the investor's
\* stage_focus_normalized list and the startup ticket range overlaps the
\* investor check range, A1_stage_alignment awards 30 of 30 and
\* A2_check_size_compatibility awards 30 of 30, whatever the other profile
\* fields are (the Match Result shows these points when no rubric replaces
\* them).
C14_ScenarioB ==
  (Matched /\ StageInFocus /\ TicketsOverlap) =>
    /\ IsFull30(EngineResult("deal_compatibility", "A1_stage_alignment"))
    /\ IsFull30(EngineResult("deal_compatibility", "A2_check_size_compatibility"))
    /\ rubric = None =>
         LET subs == result.category_breakdown.deal_compatibility.subcategories
         IN /\ IsFull30(subs.A1_stage_alignment)
            /\ IsFull30(subs.A2_check_size_compatibility)

\* the scenario after an override of another field, the ranges only touching
C14_Witness ==
  /\ Matched /\ StageInFocus /\ TicketsOverlap
  /\ edits = 1
  /\ rubric = None
  /\ StartupOf.raise.min_ticket_usd = InvestorOf.check_max_usd
  /\ result.category_breakdown.deal_compatibility.raw_points < 125

\* the founder_team_fit summary of a Match Result, and its D1 sub-rule
TeamFit(res) == res.category_breakdown.founder_team_fit
TeamD1(res) == TeamFit(res).subcategories.D1_team_completeness_vs_stage

COVERED_CONDITION == "startup.team.core_roles_covered_pct >= 0.9"

\* C15 (as stated): for any startup/investor pair, re-scoring after the
\* completed-task override startup.team.core_roles_covered_pct = 1.0 yields a
\* founder_team_fit raw_points strictly greater than the run without it.
C15_TeamFitStrictlyGreater ==
  pc = "rescored" => TeamFit(result).raw_points > TeamFit(first_result).raw_points

\* C15 (amended): after the override D1 resolves to "core_roles_covered_pct >=
\* 0.9", the other founder_team_fit sub-rules keep their points, and
\* raw_points is strictly greater than before when the earlier run had not
\* resolved D1 to that condition (coverage missing or below 0.9) and unchanged
\* when it had.
C15_TeamFitGreaterUnlessCovered ==
  pc = "rescored" =>
    /\ TeamD1(result).matched_condition = COVERED_CONDITION
    /\ TeamFit(result).raw_points - TeamFit(first_result).raw_points
         = TeamD1(result).points - TeamD1(first_result).points
    /\ IF TeamD1(first_result).matched_condition = COVERED_CONDITION
       THEN TeamFit(result).raw_points = TeamFit(first_result).raw_points
       ELSE TeamFit(result).raw_points > TeamFit(first_result).raw_points

\* both cases: a run that gains points under a rubric, after an override had
\* already been applied before the first run
C15_Witness ==
  /\ pc = "rescored"
  /\ rubric # None
  /\ edits = 1
  /\ TeamD1(first_result).matched_condition = "startup.team.core_roles_covered_pct < 0.4"
  /\ TeamFit(result).raw_points > TeamFit(first_result).raw_points

-----------------------------------------------------------------------------
(* Refinement by a provider *)

Refined == pc = "refined"

\* the callers that refine a profile
BUILDERS == {"build_startup_cmd", "build_investor_cmd", "generate_startup_thesis_profile"}

\* the value a profile holds at a path, Absent where the path does not lead
Absent == [t |-> "absent"]

RECURSIVE ValueAt(_, _)
ValueAt(cur, path) ==
  IF path = <<>> THEN cur
  ELSE IF IsDict(cur) /\ Head(path) \in DOMAIN cur THEN ValueAt(cur[Head(path)], Tail(path))
  ELSE Absent

\* what a logged response supplies for the profile of the caller
Supplied(call) ==
  IF IsDict(call.response) /\ ProfileKey(llm.caller) \in DOMAIN call.response
  THEN call.response[ProfileKey(llm.caller)]
  ELSE call.response

Answers == {i \in 1..Len(llm.calls) : llm.calls[i].outcome = "ok"}

CriticalPaths ==
  IF llm.caller = "build_investor_cmd" THEN INVESTOR_CRITICAL_PATHS
  ELSE STARTUP_CRITICAL_PATHS

\* a critical field the draft holds, for which every merged response supplies
\* null or nothing and one of them an explicit null
NullOverDraft(j) ==
  LET p == CriticalPaths[j]
      draft == ValueAt(llm.base[ProfileKey(llm.caller)], p)
  IN /\ draft.t \notin {"absent", "none"}
     /\ \A i \in Answers : ValueAt(Supplied(llm.calls[i]), p).t \in {"absent", "none"}
     /\ \E i \in Answers : ValueAt(Supplied(llm.calls[i]), p).t = "none"

\* C16: when a refinement response is merged over the heuristic draft, a null
\* value in the response leaves the heuristic value of that field in place:
\* a critical field the draft holds and the responses only null keeps the
\* value of the draft in the refined profile.
C16_NullLeavesDraftValue ==
  (Refined /\ llm.caller \in BUILDERS /\ llm.raised = "") =>
    \A j \in 1..Len(CriticalPaths) :
      NullOverDraft(j) =>
        LET after == ValueAt(llm.final[ProfileKey(llm.caller)], CriticalPaths[j])
            draft == ValueAt(llm.base[ProfileKey(llm.caller)], CriticalPaths[j])
        IN after.t = draft.t /\ after = draft

\* the calls of the first refine_json and of the second-pass refine_json
CallsOf(ps) == SelectSeq(llm.calls, LAMBDA c : c.pass = ps)

\* the order the router is configured with for its first refine_json
ConfiguredOrder ==
  CASE ~llm.router -> <<>>
    [] llm.provider = "auto" -> <<"openai", "gemini", "kimi">>
    [] llm.provider = "openai" -> <<"openai", "gemini">>
    [] llm.provider = "kimi" -> <<"kimi", "gemini">>
    [] llm.provider = "gemini" -> <<"gemini", "openai">>
    [] OTHER -> <<>>

AllFailedErrors ==
  {"All providers failed. Last error: " \o pr \o " " \o f :
     pr \in {"openai", "gemini", "kimi"}, f \in FAILURES}

\* the first refine_json is over: it returned or raised
FirstCallOver == Refined \/ llm.pass = 2

\* C17: refine_json calls the providers strictly in the configured order, goes
\* on to the next one after any failure, calls nobody after the first provider
\* that succeeds and returns that provider's result, and raises only when every
\* provider of the order has failed.
C17_ProvidersInOrder ==
  LET cs == CallsOf(1)
      n == Len(cs)
  IN /\ n <= Len(ConfiguredOrder)
     /\ \A i \in 1..n : cs[i].provider = ConfiguredOrder[i]
     /\ \A i \in 1..n : i < n => cs[i].outcome \in FAILURES
     /\ (FirstCallOver /\ n > 0 /\ cs[n].outcome \in FAILURES) =>
          /\ n = Len(ConfiguredOrder)
          /\ llm.raised \in AllFailedErrors
     /\ (n > 0 /\ cs[n].outcome = "ok") =>
          /\ FirstCallOver
          /\ llm.raised \notin AllFailedErrors
          /\ (~llm.second_pass_used /\ llm.raised = "") =>
               llm.used_provider = cs[n].provider
     /\ llm.raised \in AllFailedErrors =>
          /\ n = Len(ConfiguredOrder)
          /\ \A i \in 1..n : cs[i].outcome \in FAILURES

C17_Witness ==
  /\ Refined
  /\ llm.provider = "auto"
  /\ Len(llm.calls) >= 3
  /\ llm.calls[1].outcome = "missing_credentials"
  /\ llm.calls[2].outcome = "http_error"
  /\ llm.calls[3].provider = "kimi"
  /\ llm.calls[3].outcome = "ok"
  /\ llm.used_provider = "kimi"

\* C18: when every provider fails, or the credentials are missing, a builder
\* ends with exactly the heuristic draft as the profile and with the error in
\* metadata.llm_error.
C18_FallbackKeepsDraft ==
  (/\ Refined
   /\ llm.caller \in BUILDERS
   /\ llm.calls # <<>>
   /\ \A i \in 1..Len(llm.calls) : llm.calls[i].outcome \in FAILURES) =>
    /\ llm.final[ProfileKey(llm.caller)] = llm.base[ProfileKey(llm.caller)]
    /\ llm.raised # ""
    /\ "llm_error" \in DOMAIN llm.final.metadata
    /\ llm.final.metadata.llm_error = S(llm.raised)
    /\ \A k \in DOMAIN llm.base.metadata : llm.final.metadata[k] = llm.base.metadata[k]

C18_Witness ==
  /\ Refined
  /\ llm.caller = "generate_startup_thesis_profile"
  /\ llm.base.startup = StartupMid
  /\ Len(llm.calls) = 3
  /\ \A i \in 1..3 : llm.calls[i].outcome = "missing_credentials"
  /\ llm.final.startup = StartupMid
  /\ llm.final.metadata.llm_error =
       S("All providers failed. Last error: kimi missing_credentials")

\* the critical-field missing ratio of the profile exceeds the threshold; the
\* code tests ratio >= threshold, and no count of 9 or of 8 paths gives a
\* ratio equal to 0.45 or to 0.40
RatioExceeds(caller, profile) ==
  IF caller = "build_investor_cmd"
  THEN 100 * critical_missing_count(profile.investor, INVESTOR_CRITICAL_PATHS)
         > INVESTOR_MISSING_THRESHOLD * Len(INVESTOR_CRITICAL_PATHS)
  ELSE 100 * critical_missing_count(profile.startup, STARTUP_CRITICAL_PATHS)
         > STARTUP_MISSING_THRESHOLD * Len(STARTUP_CRITICAL_PATHS)

\* C19: within one refinement the second pass is attempted at most once, is
\* sent to gemini alone, and is attempted only when it is enabled, the first
\* successful pass was not served by gemini, and the critical-field missing
\* ratio of the merged profile exceeds the threshold (0.45 startup, 0.40
\* investor).
C19_SecondPassOnce ==
  llm.caller \in BUILDERS =>
    /\ Len(CallsOf(2)) <= 1
    /\ \A i \in 1..Len(CallsOf(2)) : CallsOf(2)[i].provider = "gemini"
    /\ (llm.pass = 2 \/ CallsOf(2) # <<>>) =>
         /\ llm.second_pass_gemini
         /\ CallsOf(1) # <<>>
         /\ CallsOf(1)[Len(CallsOf(1))].outcome = "ok"
         /\ CallsOf(1)[Len(CallsOf(1))].provider # "gemini"
    /\ (llm.pass = 2 /\ ~Refined) =>
         /\ CallsOf(2) = <<>>
         /\ RatioExceeds(llm.caller, llm.out)

C19_Witness ==
  /\ Refined
  /\ llm.caller = "build_investor_cmd"
  /\ Len(CallsOf(2)) = 1
  /\ CallsOf(2)[1].outcome = "ok"
  /\ llm.second_pass_used
  /\ llm.final.metadata.llm_provider = S("gemini")

\* the narrative deterministic_reasoning builds from the match result and tasks
IsDeterministic(narr) ==
  /\ narr.style = S("deterministic_fallback")
  /\ narr.overall_summary.eligible = result.eligible
  /\ narr.overall_summary.score =
       (IF result.eligible THEN result.fit_score_0_to_100
        ELSE result.fit_score_if_eligible_0_to_100)
  /\ Len(narr.priority_actions) = Min2(3, Len(tasks))
  /\ \A i \in 1..Len(narr.priority_actions) : narr.priority_actions[i] = tasks[i].task_title
  /\ Len(narr.what_is_working) = 2
  /\ \A k \in DOMAIN result.category_breakdown :
       result.category_breakdown[k].weighted_contribution
         <= result.category_breakdown[narr.what_is_working[2]].weighted_contribution
       \/ k = narr.what_is_working[1]
  /\ \A k \in DOMAIN result.category_breakdown :
       result.category_breakdown[k].weighted_contribution
         >= result.category_breakdown[narr.what_is_blocking[1]].weighted_contribution
       \/ k = narr.what_is_blocking[2]

\* C20: llm_reasoning always returns a narrative; without a router, with
\* missing credentials, when every provider fails or the output is unusable,
\* it is the deterministic reasoning built from the match result and the
\* tasks, with llm_error set when a provider call raised.
C20_ReasoningFallsBack ==
  llm.caller = "llm_reasoning" =>
    /\ ~Refined => (~llm.router \/ llm.order = <<>> \/ Len(llm.tried) < Len(llm.order))
    /\ Refined =>
         /\ "style" \in DOMAIN llm.final
         /\ "overall_summary" \in DOMAIN llm.final
         /\ (\/ ~llm.router
             \/ \A i \in 1..Len(llm.calls) : llm.calls[i].outcome \in FAILURES
             \/ llm.calls[Len(llm.calls)].response = NON_OBJECT_RESPONSE) =>
              IsDeterministic(llm.final)
         /\ (llm.router /\ \A i \in 1..Len(llm.calls) : llm.calls[i].outcome \in FAILURES) =>
              /\ "llm_error" \in DOMAIN llm.final
              /\ llm.final.llm_error = S(llm.raised)
              /\ llm.raised # ""

C20_Witness ==
  /\ Refined
  /\ llm.caller = "llm_reasoning"
  /\ llm.router
  /\ Len(llm.calls) = 2
  /\ llm.calls[1].outcome = "missing_credentials"
  /\ llm.calls[2].outcome = "timeout"
  /\ llm.final.style = S("deterministic_fallback")
  /\ "llm_error" \in DOMAIN llm.final
  /\ Len(llm.final.priority_actions) = 3
  /\ ~result.eligible


-----------------------------------------------------------------------------
(* Declared fields after fill_*_defaults *)

\* C21: fill_startup_defaults and fill_investor_defaults return, for any
\* draft, a profile in which every declared field is present as a key
\* (possibly null), the stage, round and HQ fields included: in the profile a
\* builder ends with after a refinement, none of the critical paths of the
\* profile is an absent key.
C21_EveryDeclaredFieldPresent ==
  (Refined /\ llm.caller \in BUILDERS /\ llm.raised = "") =>
    \A j \in 1..Len(CriticalPaths) :
      ValueAt(llm.final[ProfileKey(llm.caller)], CriticalPaths[j]).t # "absent"


-----------------------------------------------------------------------------
(* Stage normalization of canonical values *)

\* the stage fields of the profile of the caller
StagePaths ==
  IF llm.caller = "build_investor_cmd"
  THEN {<<"stage_focus_normalized">>, <<"stage_exclude_normalized">>}
  ELSE {<<"stage_normalized">>, <<"round_normalized">>}

\* every canonical stage the profile holds in a stage field before
\* fill_*_defaults is still there after it
CanonicalKept(before, after) ==
  CASE before.t = "str" ->
         InStageOrder(before.v) => (after.t = "str" /\ after.v = before.v)
    [] before.t = "list" ->
         \A k \in 1..Len(before.v) :
           InStageOrder(before.v[k]) =>
             (after.t = "list" /\ \E n \in 1..Len(after.v) : after.v[n] = before.v[k])
    [] OTHER -> TRUE

\* C29: stage normalization is idempotent on canonical values: a startup
\* stage_normalized / round_normalized or an investor stage_focus_normalized
\* entry equal to one of pre_seed, seed, series_a, series_b, series_c_plus is
\* still that value after fill_startup_defaults / fill_investor_defaults, for
\* every profile a builder merges from its draft and a provider answer.
C29_CanonicalStageKept ==
  llm.caller \in BUILDERS =>
    \A i \in Answers :
      LET Kept(merged, filled) ==
            (IsDict(filled) /\ ProfileKey(llm.caller) \in DOMAIN filled) =>
              \A path \in StagePaths :
                CanonicalKept(ValueAt(merged[ProfileKey(llm.caller)], path),
                              ValueAt(filled[ProfileKey(llm.caller)], path))
          Filled(merged) == Kept(merged, fill_defaults(llm.caller, merged))
      IN Filled(merge_refined(llm.caller, llm.base, llm.calls[i].response))


-----------------------------------------------------------------------------
(* The check-size gate and the check-size sub-rule *)

\* the hard gate on the investor's maximum check failed for the pair
CheckGateFails ==
  /\ Matched
  /\ \E i \in 1..Len(result.gate_fail_reasons) :
       result.gate_fail_reasons[i] =
         "Investor max check is below startup minimum acceptable check."

CheckSizeRule == EngineResult("deal_compatibility", "A2_check_size_compatibility")

\* C30: whenever the hard gate "Investor max check is below startup minimum
\* acceptable check." fails for a pair, A2_check_size_compatibility awards 0
\* points for the pair, on the condition investor.check_max_usd <
\* startup.raise.min_ticket_usd.
C30_GateFailZeroCheckPoints ==
  CheckGateFails =>
    /\ CheckSizeRule.points = 0
    /\ CheckSizeRule.matched_condition =
         "investor.check_max_usd < startup.raise.min_ticket_usd"

\* C30 as the cascade of A2 decides it: when the gate fails the ranges never
\* overlap, so A2 never awards its 30 points and never reaches its missing or
\* default branch; the three conditions on the investor's typical check come
\* first and award 26, 22 or 16 points, and the 0 points of
\* investor.check_max_usd < startup.raise.min_ticket_usd are awarded when none
\* of them matches, as always when the investor has no typical check.
C30_GateFailNoOverlapPoints ==
  CheckGateFails =>
    /\ CheckSizeRule.matched_condition \in
         {"investor.check_typical_usd BETWEEN startup.raise.min_ticket_usd AND startup.raise.max_ticket_usd",
          "investor.check_typical_usd >= 0.01 * startup.raise.target_raise_usd",
          "investor.check_typical_usd >= 0.005 * startup.raise.target_raise_usd",
          "investor.check_max_usd < startup.raise.min_ticket_usd"}
    /\ CheckSizeRule.points \in {26, 22, 16, 0}
    /\ CheckSizeRule.points = 0 <=>
         CheckSizeRule.matched_condition =
           "investor.check_max_usd < startup.raise.min_ticket_usd"
    /\ IsNone(Get(InvestorOf, "check_typical_usd")) => CheckSizeRule.points = 0
    /\ rubric = None =>
         result.category_breakdown.deal_compatibility.subcategories
           .A2_check_size_compatibility.points = CheckSizeRule.points

\* the gate fails for an investor whose typical check lies below its maximum
\* check, and A2 awards 22 points
C30_Witness ==
  /\ CheckGateFails
  /\ rubric = None
  /\ Get(InvestorOf, "check_typical_usd").t = "num"
  /\ Get(InvestorOf, "check_max_usd").t = "num"
  /\ Get(InvestorOf, "check_typical_usd").v <= Get(InvestorOf, "check_max_usd").v
  /\ CheckSizeRule.points = 22
  /\ ~result.eligible


-----------------------------------------------------------------------------
(* match_cmd with a completed-tasks file                                   *)
(*                                                                         *)
(* A dict whose order of insertion matters (field_updates) is a record     *)
(* [items |-> << <<key, value>>, ... >>].  task_done is a bool, None or a   *)
(* str in the files of the model.                                          *)

\* to_bool
to_bool(x) ==
  CASE x.t = "bool" -> x
    [] x.t = "none" -> None
    [] x.t = "str" /\ norm_str(x.v) \in {"true", "yes", "y", "1", "provided", "available"} ->
         B(TRUE)
    [] x.t = "str" /\ norm_str(x.v) \in {"false", "no", "n", "0", "missing", "unknown",
                                       "not provided", "none"} ->
         B(FALSE)
    [] OTHER -> None

\* dotted.split(".") without its empty parts, for the paths of the model
DOTTED_PATHS ==
  << <<"startup.team.core_roles_covered_pct", <<"startup", "team", "core_roles_covered_pct">>>>,
     <<"team.core_roles_covered_pct", <<"team", "core_roles_covered_pct">>>>,
     <<"startup.hq_country", <<"startup", "hq_country">>>>,
     <<"hq_country", <<"hq_country">>>>,
     <<"investor.check_max_usd", <<"investor", "check_max_usd">>>>,
     <<"", <<>>>> >>

\* p.startswith(prefix + ".")
starts_with(p, prefix) ==
  /\ Lookup(DOTTED_PATHS, p) # <<>>
  /\ Lookup(DOTTED_PATHS, p)[1] = prefix
  /\ p # prefix

\* the loop over updates.items(); acc holds startup_new, investor_new, applied
RECURSIVE apply_field_updates(_, _)
apply_field_updates(acc, items) ==
  IF items = <<>> THEN acc
  ELSE LET p == items[1][1]
           val == items[1][2]
           Applied(a) == [a EXCEPT !.applied = Append(@, p)]
       IN apply_field_updates(
            Applied(IF starts_with(p, "startup")
                    THEN [acc EXCEPT !.startup_new =
                            set_by_dotted_path(@, Lookup(DOTTED_PATHS, p), val)]
                    ELSE IF starts_with(p, "investor")
                    THEN [acc EXCEPT !.investor_new =
                            set_by_dotted_path(@, Lookup(DOTTED_PATHS, p), val)]
                    ELSE [acc EXCEPT !.startup_new =
                            set_by_dotted_path(@, Lookup(DOTTED_PATHS, p), val)]),
            Tail(items))

\* the loop over the tasks of the file
RECURSIVE apply_done_tasks(_, _)
apply_done_tasks(acc, ts) ==
  IF ts = <<>> THEN acc
  ELSE LET t == ts[1]
           updates == GetOr(t, "field_updates", [items |-> <<>>])
       IN apply_done_tasks(
            IF ~IsDict(t) THEN acc
            ELSE IF ~IsTrue(to_bool(Get(t, "task_done"))) THEN acc
            ELSE IF ~IsDict(updates) THEN acc
            ELSE apply_field_updates(acc, updates.items),
            Tail(ts))

\* apply_completed_tasks_overrides that sets the paths in the objects it was
\* passed
apply_completed_tasks_overrides_in_place(startup_obj_, investor_obj_, file) ==
  LET tasks_ == IF file.t = "file" /\ file.exists /\ file.readable
                THEN (IF IsDict(file.payload) THEN Get(file.payload, "tasks")
                      ELSE file.payload)
                ELSE None
      Returned(acc) ==
        [startup_new |-> acc.startup_new, investor_new |-> acc.investor_new,
         applied |-> acc.applied,
         startup_passed |-> acc.startup_new, investor_passed |-> acc.investor_new,
         copied |-> FALSE]
  IN IF tasks_.t # "list"
     THEN [startup_new |-> startup_obj_, investor_new |-> investor_obj_, applied |-> <<>>,
           startup_passed |-> startup_obj_, investor_passed |-> investor_obj_,
           copied |-> FALSE]
     ELSE Returned(apply_done_tasks([startup_new |-> startup_obj_,
                                     investor_new |-> investor_obj_,
                                     applied |-> <<>>], tasks_.v))

\* apply_completed_tasks_overrides(startup_obj, investor_obj,
\* completed_tasks_file): what it returns (startup_new, investor_new, applied),
\* what the objects it was passed hold when it returns (startup_passed,
\* investor_passed), and whether the objects it returns are deep copies
apply_completed_tasks_overrides(startup_obj_, investor_obj_, file) ==
  LET tasks_ == IF file.t = "file" /\ file.exists /\ file.readable
                THEN (IF IsDict(file.payload) THEN Get(file.payload, "tasks")
                      ELSE file.payload)
                ELSE None
      Returned(acc) ==
        [startup_new |-> acc.startup_new, investor_new |-> acc.investor_new,
         applied |-> acc.applied,
         startup_passed |-> startup_obj_, investor_passed |-> investor_obj_,
         copied |-> TRUE]
  IN IF tasks_.t # "list"
     THEN [startup_new |-> startup_obj_, investor_new |-> investor_obj_, applied |-> <<>>,
           startup_passed |-> startup_obj_, investor_passed |-> investor_obj_,
           copied |-> FALSE]
     ELSE Returned(apply_done_tasks([startup_new |-> startup_obj_,
                                     investor_new |-> investor_obj_,
                                     applied |-> <<>>], tasks_.v))

\* the tasks a completed-tasks file of the model may hold
COMPLETED_TASKS ==
  { [task_done |-> B(TRUE),
     field_updates |-> [items |-> << <<"startup.team.core_roles_covered_pct", N(100)>> >>]],
    [task_done |-> B(TRUE),
     field_updates |-> [items |-> << <<"team.core_roles_covered_pct", N(100)>> >>]],
    [task_done |-> S("yes"),
     field_updates |-> [items |-> << <<"investor.check_max_usd", N(200)>>,
                                     <<"hq_country", S("uk")>> >>]],
    [task_done |-> B(FALSE),
     field_updates |-> [items |-> << <<"startup.hq_country", S("uk")>> >>]],
    [task_done |-> None,
     field_updates |-> [items |-> << <<"startup.team.core_roles_covered_pct", N(100)>> >>]],
    [task_done |-> S("done"),
     field_updates |-> [items |-> << <<"investor.check_max_usd", N(200)>> >>]],
    [task_done |-> B(TRUE), field_updates |-> L(<<"startup.hq_country">>)],
    [task_done |-> B(TRUE)],
    S("close team gaps") }

MaxFileTasks == 2

InitOverrides ==
  LET TASK_LISTS == UNION {[1..n -> COMPLETED_TASKS] : n \in 0..MaxFileTasks}
      PAYLOADS == {L(ts) : ts \in TASK_LISTS} \cup {[tasks |-> L(ts)] : ts \in TASK_LISTS}
                    \cup {[tasks |-> S("none")], [note |-> S("no tasks")], S("[]")}
      FILES == {None,
                [t |-> "file", exists |-> FALSE, readable |-> FALSE, payload |-> None],
                [t |-> "file", exists |-> TRUE, readable |-> FALSE, payload |-> None]}
                 \cup {[t |-> "file", exists |-> TRUE, readable |-> TRUE, payload |-> pl] :
                         pl \in PAYLOADS}
  IN
  /\ startup_obj \in {[startup |-> StartupMid,
                       metadata |-> [source_files |-> S("startup_kv.json")]],
                      [startup |-> StartupBlank,
                       metadata |-> [source_files |-> S("startup_kv.json")]],
                      StartupMid}
  /\ investor_obj \in {[investor |-> InvestorMatch,
                        metadata |-> [source_file |-> S("investor_data.json")]]}
  /\ rubric = None
  /\ batch = None
  /\ matches_table = None
  /\ pipeline_status = None
  /\ pipeline_tasks = None
  /\ now = 0
  /\ pc = "loaded"
  /\ edits = 0
  /\ result = None
  /\ first_result = None
  /\ max_tasks = DEFAULT_MAX_TASKS
  /\ tasks = <<>>
  /\ llm = None
  /\ completed_tasks_file \in FILES
  /\ overridden = None

\* match_cmd with --completed-tasks: apply_completed_tasks_overrides, then
\* manual_match and generate_improvement_tasks on what it returned
MatchWithCompletedTasks ==
  /\ pc = "loaded"
  /\ overridden' = apply_completed_tasks_overrides(startup_obj, investor_obj,
                                                   completed_tasks_file)
  /\ result' = manual_match(overridden'.startup_new, overridden'.investor_new, rubric, now)
  /\ tasks' = generate_improvement_tasks(result', max_tasks)
  /\ edits' = Len(overridden'.applied)
  /\ pc' = "matched"
  /\ UNCHANGED <<startup_obj, investor_obj, rubric, now, first_result, max_tasks, llm,
                 completed_tasks_file,
                 batch, matches_table, pipeline_status, pipeline_tasks>>

NextOverrides == MatchWithCompletedTasks

SpecOverrides == InitOverrides /\ [][NextOverrides]_vars


-----------------------------------------------------------------------------
(* Completed-task overrides *)

Overridden == pc = "matched" /\ overridden # None

\* the completed-tasks file can be used: it is there, it holds JSON, and the
\* JSON is a list of tasks or a dict whose "tasks" is one
FileUsable ==
  /\ completed_tasks_file.t = "file"
  /\ completed_tasks_file.exists
  /\ completed_tasks_file.readable
  /\ IF IsDict(completed_tasks_file.payload)
     THEN /\ "tasks" \in DOMAIN completed_tasks_file.payload
          /\ completed_tasks_file.payload.tasks.t = "list"
     ELSE completed_tasks_file.payload.t = "list"

FileTasks ==
  IF ~FileUsable THEN <<>>
  ELSE IF IsDict(completed_tasks_file.payload) THEN completed_tasks_file.payload.tasks.v
  ELSE completed_tasks_file.payload.v

\* the task is marked done in the file
MarkedDone(t) ==
  /\ IsDict(t)
  /\ "task_done" \in DOMAIN t
  /\ t.task_done \in {B(TRUE), S("yes")}

\* the paths the done tasks of the file update
DoneUpdatePaths ==
  UNION {{FileTasks[i].field_updates.items[k][1] :
            k \in 1..Len(FileTasks[i].field_updates.items)} :
         i \in {j \in 1..Len(FileTasks) :
                  /\ MarkedDone(FileTasks[j])
                  /\ "field_updates" \in DOMAIN FileTasks[j]
                  /\ IsDict(FileTasks[j].field_updates)}}

\* C25: apply_completed_tasks_overrides applies the field_updates of the tasks
\* marked done to deep copies only: the startup and investor objects passed in
\* are never modified, tasks not marked done contribute no update, and when no
\* overrides file is usable the original objects are returned with an empty
\* applied list.
C25_OverridesOnCopies ==
  Overridden =>
    /\ overridden.startup_passed = startup_obj
    /\ overridden.investor_passed = investor_obj
    /\ FileUsable => overridden.copied
    /\ \A i \in 1..Len(overridden.applied) : overridden.applied[i] \in DoneUpdatePaths
    /\ (\A i \in 1..Len(FileTasks) : ~MarkedDone(FileTasks[i])) =>
         /\ overridden.startup_new = startup_obj
         /\ overridden.investor_new = investor_obj
         /\ overridden.applied = <<>>
    /\ ~FileUsable =>
         /\ overridden.startup_new = startup_obj
         /\ overridden.investor_new = investor_obj
         /\ overridden.applied = <<>>
         /\ ~overridden.copied

\* a file with a task that is not done and a done one: only the done one is
\* applied, to the copy
C25_Witness ==
  /\ Overridden
  /\ "startup" \in DOMAIN startup_obj
  /\ startup_obj.startup = StartupMid
  /\ Len(FileTasks) = 2
  /\ IsDict(FileTasks[1])
  /\ FileTasks[1].task_done = B(FALSE)
  /\ MarkedDone(FileTasks[2])
  /\ overridden.applied = <<"startup.team.core_roles_covered_pct">>
  /\ overridden.startup_new.startup.team.core_roles_covered_pct = N(100)
  /\ overridden.startup_new.startup.hq_country = StartupMid.hq_country
  /\ overridden.startup_passed.startup = StartupMid

\* the file with every path of no prefix written with the "startup." prefix
PrefixedFile ==
  LET Prefixed(p) == IF starts_with(p, "startup") \/ starts_with(p, "investor") \/ p = ""
                     THEN p ELSE "startup." \o p
      Items(items) == [k \in 1..Len(items) |-> <<Prefixed(items[k][1]), items[k][2]>>]
      Task(t) == IF IsDict(t) /\ "field_updates" \in DOMAIN t /\ IsDict(t.field_updates)
                 THEN [t EXCEPT !.field_updates = [items |-> Items(@.items)]]
                 ELSE t
      Tasks(ts) == [i \in 1..Len(ts) |-> Task(ts[i])]
  IN [completed_tasks_file EXCEPT !.payload = L(Tasks(FileTasks))]

\* C27: a field_updates path without a "startup." or "investor." prefix is
\* applied to the startup profile, so that the following manual_match reads
\* the updated value exactly as if the path had been written with the
\* "startup." prefix: the Match Result is the one of the file with the
\* prefixes written out.
C27_UnprefixedAsStartupPath ==
  (Overridden /\ FileUsable) =>
    LET Rematch(prefixed) ==
          manual_match(prefixed.startup_new, prefixed.investor_new, rubric, now)
    IN result = Rematch(apply_completed_tasks_overrides(startup_obj, investor_obj,
                                                        PrefixedFile))


-----------------------------------------------------------------------------
(* Provider calls of one request *)

\* the failures a later call could cure: an HTTP error status (5xx, rate
\* limit) and a timeout
TRANSIENT == {"http_error", "timeout"}

\* C24: on a transient provider error an LLM-backed step retries the same
\* provider a bounded number of times before it falls back to the next
\* provider: the call that follows a transient failure within one refine_json
\* goes to the same provider, unless that provider was already retried.
C24_RetriesBeforeFallback ==
  llm # None =>
    \A i \in 1..(Len(llm.calls) - 1) :
      (llm.calls[i].outcome \in TRANSIENT /\ llm.calls[i + 1].pass = llm.calls[i].pass) =>
        \/ llm.calls[i + 1].provider = llm.calls[i].provider
        \/ \E j \in 1..(i - 1) :
             /\ llm.calls[j].pass = llm.calls[i].pass
             /\ llm.calls[j].provider = llm.calls[i].provider

\* C24 as the router decides it: within one refine_json no provider is called
\* twice, a failure of any kind is followed at once by the next provider of
\* the order, and the request ends after at most as many calls as the order
\* has providers (one more for a second pass) in a result or in a failure that
\* is reported; while it has not ended a provider call is still due.
C24_NoRetryBoundedCalls ==
  llm # None =>
    /\ \A i, j \in 1..Len(llm.calls) :
         (i < j /\ llm.calls[i].pass = llm.calls[j].pass) =>
           llm.calls[i].provider # llm.calls[j].provider
    /\ \A i \in 1..(Len(llm.calls) - 1) :
         (llm.calls[i].outcome \in TRANSIENT /\ llm.calls[i + 1].pass = llm.calls[i].pass) =>
           llm.calls[i + 1].provider # llm.calls[i].provider
    /\ Len(CallsOf(1)) <= Len(ConfiguredOrder)
    /\ Len(CallsOf(2)) <= 1
    /\ Len(llm.calls) <= 4
    /\ ~Refined => (llm.router /\ Len(llm.tried) < Len(llm.order))
                     \/ ~llm.router \/ llm.order = <<>>
    /\ (Refined /\ llm.raised # "") =>
         IF llm.caller = "llm_reasoning"
         THEN "llm_error" \in DOMAIN llm.final /\ llm.final.llm_error = S(llm.raised)
         ELSE llm.final.metadata.llm_error = S(llm.raised)

\* a timeout of the first provider, answered by the next one at once
C24_Witness ==
  /\ llm # None
  /\ Refined
  /\ llm.caller = "build_startup_cmd"
  /\ Len(llm.calls) = 2
  /\ llm.calls[1].provider = "openai"
  /\ llm.calls[1].outcome = "timeout"
  /\ llm.calls[2].provider = "gemini"
  /\ llm.calls[2].outcome = "ok"
  /\ llm.raised = ""
  /\ llm.final.metadata.llm_provider = S("gemini")


-----------------------------------------------------------------------------
(* run_investor_matching: one startup against the fetched investors        *)
(*                                                                         *)
(* An investor row carries its id, its name and its normalized thesis.  An  *)
(* id is [custom |-> FALSE, n |-> k] for row k of the investors table and   *)
(* [custom |-> TRUE, n |-> k] for a "custom_<hex>" id.  A row of            *)
(* startup_investor_matches holds the columns _build_match_row writes that  *)
(* the run reads again.                                                    *)

\* infer_investor_heuristic of a row that holds no investor_* column but its
\* name
infer_investor_heuristic(d) ==
  [investor |->
     [name |-> d.investor_name,
      active_status |-> S("active"),
      stage_focus_normalized |-> L(<<>>), stage_exclude_normalized |-> L(<<>>),
      sector_focus_normalized |-> L(<<>>), sector_exclude_normalized |-> L(<<>>),
      business_models_include |-> L(<<"b2b", "b2c">>), business_models_exclude |-> L(<<>>),
      prefers_b2b |-> None, prefers_b2c |-> None,
      geo_focus_normalized |-> L(<<>>), geo_exclude_normalized |-> L(<<>>),
      geo_hard_constraint |-> B(FALSE), remote_ok |-> B(TRUE),
      check_min_usd |-> None, check_typical_usd |-> None, check_max_usd |-> None,
      lead_or_follow |-> S("both"), lead_follow_strict |-> B(FALSE),
      instrument_include_normalized |-> L(<<"equity", "safe", "convertible_note">>),
      instrument_exclude_normalized |-> L(<<>>),
      regulatory_exclude |-> L(<<>>), regulatory_tolerance_level |-> N(2),
      defensibility_preference_min_score |-> N(50),
      time_horizon_min_years |-> N(2), time_horizon_max_years |-> N(10),
      capital_intensity_tolerance_level |-> N(2),
      requires_pitch_deck |-> B(TRUE), requires_data_room |-> B(FALSE),
      decision_speed_days |-> None, source_urls |-> L(<<>>)],
   metadata |-> [source_file |-> S("investor_data.json")]]

\* _parse_investor_thesis
parse_investor_thesis(raw_row) ==
  LET thesis == raw_row.normalized_thesis_json
  IN IF IsDict(thesis)
        /\ ("investor" \in DOMAIN thesis \/ "stage_focus_normalized" \in DOMAIN thesis)
     THEN (IF "investor" \notin DOMAIN thesis THEN [investor |-> thesis] ELSE thesis)
     ELSE infer_investor_heuristic(raw_row)

\* _match_single_investor(startup_profile, inv_row): the Match Result with the
\* investor's id, name and profile, None when the scoring raised
\* (fill_investor_defaults raises AttributeError on an "investor" that is no
\* dict)
match_single_investor(startup_profile, inv_row, now_) ==
  LET Tagged(result_) ==
        result_ @@ [investor_id |-> inv_row.id,
                    investor_name |-> IF Truthy(inv_row.investor_name)
                                      THEN inv_row.investor_name ELSE S("Unknown"),
                    investor_profile |-> [id |-> inv_row.id, name |-> inv_row.investor_name]]
      Matched_(thesis) ==
        IF ~IsDict(thesis.investor) THEN None
        ELSE Tagged(manual_match(startup_profile, fill_investor_defaults(thesis), None, now_))
  IN Matched_(parse_investor_thesis(inv_row))

\* sorted(matches, key=fit_score_0_to_100, reverse=True): stable, the first of
\* the best comes first
RECURSIVE sorted_by_fit(_)
sorted_by_fit(matches) ==
  IF matches = <<>> THEN <<>>
  ELSE LET best == CHOOSE i \in 1..Len(matches) :
                     /\ \A j \in 1..Len(matches) :
                          matches[j].fit_score_0_to_100 <= matches[i].fit_score_0_to_100
                     /\ \A j \in 1..(i - 1) :
                          matches[j].fit_score_0_to_100 < matches[i].fit_score_0_to_100
       IN <<matches[best]>>
            \o sorted_by_fit([k \in 1..(Len(matches) - 1) |->
                                IF k < best THEN matches[k] ELSE matches[k + 1]])

\* _build_match_row
build_match_row(m, matched_at) ==
  [investor_id |-> m.investor_id,
   fit_score_0_to_100 |-> m.fit_score_0_to_100,
   eligible |-> m.eligible,
   investor_profile |-> m.investor_profile,
   matching_version |-> m.matching_version,
   matched_at |-> matched_at]

\* upsert(rows, on_conflict="org_id,investor_id") on the rows of the org
upsert(table, rows) ==
  {r \in table : \A i \in 1..Len(rows) : rows[i].investor_id # r.investor_id}
    \cup {rows[i] : i \in 1..Len(rows)}

\* delete().eq("org_id", org_id).neq("matching_version", "custom_added_v1")
delete_generated(table) == {r \in table : r.matching_version = "custom_added_v1"}

\* variant: a failed scoring discards what was collected before it
collect_result_aborting(match_results, result_) ==
  IF result_ = None THEN <<>> ELSE Append(match_results, result_)

\* the body of the as_completed loop: a result that is not None is appended
collect_result(match_results, result_) ==
  IF result_ = None THEN match_results ELSE Append(match_results, result_)

\* the final store of run_investor_matching: delete and batch upsert in one
\* try, one upsert per row when either raised.  db tells what the database
\* does: "up", "delete_fails" (the delete raises, the single upserts work),
\* "row_fails" (the batch upsert and the single upsert of its first row
\* raise), "down" (every call raises)
store_final(table, rows, db) ==
  CASE db = "up" ->
         [table |-> upsert(delete_generated(table), rows), stored |-> Len(rows)]
    [] db = "delete_fails" ->
         [table |-> upsert(table, rows), stored |-> Len(rows)]
    [] db = "row_fails" ->
         [table |-> upsert(delete_generated(table), Tail(rows)), stored |-> Len(rows) - 1]
    [] OTHER ->
         [table |-> table, stored |-> 0]

\* get_investor_matches: the rows of the org by fit score, best first; among
\* equal scores the database decides, custom_first tells how
get_investor_matches(table, custom_first) ==
  LET Key(r) == 2 * r.fit_score_0_to_100
                  + (IF (r.matching_version = "custom_added_v1") = custom_first THEN 1 ELSE 0)
      RECURSIVE Ordered(_)
      Ordered(rest) ==
        IF rest = {} THEN <<>>
        ELSE LET r == CHOOSE x \in rest :
                        \A y \in rest :
                          \/ Key(y) < Key(x)
                          \/ (Key(y) = Key(x) /\ (y.investor_id.n >= x.investor_id.n))
             IN <<r>> \o Ordered(rest \ {r})
  IN Ordered(table)

\* the most rows generate_match_reasonings is asked to explain
REASONING_TOP_N == 10

\* generate_match_reasonings(top_n): the investor_profile of each of the first
\* top_n rows gets an ai_reasoning when Gemini answered
generate_match_reasonings(table, top_n, custom_first, answered) ==
  LET matches == SubSeq(get_investor_matches(table, custom_first), 1,
                        Min2(top_n, Cardinality(table)))
      Explained == {matches[i].investor_id : i \in 1..Len(matches)}
  IN IF ~answered THEN table
     ELSE {IF r.investor_id \in Explained
           THEN [r EXCEPT !.investor_profile = [ai_reasoning |-> "generated"] @@ @]
           ELSE r : r \in table}

\* the interim store every INTERIM_EVERY scored investors, once INTERIM_TOP_N
\* are scored
INTERIM_EVERY == 30
INTERIM_TOP_N == 5

\* the most investors a run fetches
MaxInvestors == 31

\* the investors fetched: row k fails when k is in failing; the theses go
\* round the presets, wrapped in "investor" or bare, and every fifth row has
\* no thesis at all
FetchedInvestors(n, failing) ==
  LET THESES == <<InvestorMatch, InvestorStrict, InvestorBlank, InvestorExcluding>>
      Thesis(k) ==
        IF k \in failing THEN [investor |-> None]
        ELSE IF k % 5 = 0 THEN None
        ELSE IF k % 2 = 0 THEN THESES[(k % 4) + 1]
        ELSE [investor |-> THESES[(k % 4) + 1],
              metadata |-> [source_file |-> S("investor_data.json")]]
  IN [k \in 1..n |->
        [id |-> [custom |-> FALSE, n |-> k],
         investor_name |-> IF k = 1 THEN None ELSE S("Fund"),
         normalized_thesis_json |-> Thesis(k)]]

\* the rows the org has before the run: one it added itself, with the
\* reasoning add_custom_investor_match gave it, and two from an earlier run,
\* one of them of an investor no longer fetched
EarlierRows ==
  {[investor_id |-> [custom |-> TRUE, n |-> 1],
    fit_score_0_to_100 |-> 100 * Scale, eligible |-> TRUE,
    investor_profile |-> [id |-> [custom |-> TRUE, n |-> 1], name |-> S("Angel"),
                          ai_reasoning |-> "added"],
    matching_version |-> "custom_added_v1", matched_at |-> 0],
   [investor_id |-> [custom |-> FALSE, n |-> 2],
    fit_score_0_to_100 |-> 90 * Scale, eligible |-> TRUE,
    investor_profile |-> [id |-> [custom |-> FALSE, n |-> 2], name |-> S("Fund")],
    matching_version |-> "manual_deterministic_v2", matched_at |-> 0],
   [investor_id |-> [custom |-> FALSE, n |-> 0],
    fit_score_0_to_100 |-> 80 * Scale, eligible |-> TRUE,
    investor_profile |-> [id |-> [custom |-> FALSE, n |-> 0], name |-> S("Gone")],
    matching_version |-> "manual_deterministic_v2", matched_at |-> 0]}

Reversed(seq) == [i \in 1..Len(seq) |-> seq[Len(seq) + 1 - i]]

InitBatch ==
  /\ startup_obj \in {[startup |-> StartupMid,
                       metadata |-> [source_files |-> S("startup_kv.json")]]}
  /\ investor_obj = None
  /\ rubric = None
  /\ now = 1
  /\ pc = "scoring"
  /\ edits = 0
  /\ result = None
  /\ first_result = None
  /\ max_tasks = DEFAULT_MAX_TASKS
  /\ tasks = <<>>
  /\ llm = None
  /\ completed_tasks_file = None
  /\ overridden = None
  /\ pipeline_status = None
  /\ pipeline_tasks = None
  /\ matches_table \in {{}, EarlierRows}
  /\ \E n \in {0, 2, 6, MaxInvestors}, failing \in {{}, {2}, 1..MaxInvestors},
        descending \in BOOLEAN, max_matches \in {3, 10} :
       batch = [investors |-> FetchedInvestors(n, failing),
                \* the order the futures complete in
                futures |-> IF descending THEN Reversed([k \in 1..n |-> k])
                            ELSE [k \in 1..n |-> k],
                max_matches |-> max_matches,
                matched_at |-> now,
                before |-> matches_table,
                match_results |-> <<>>,
                scored_count |-> 0,
                failed_count |-> 0,
                last_interim_at |-> 0,
                interim_stored |-> {},
                db |-> "none",
                stored |-> 0,
                returned |-> None]

\* one turn of the as_completed loop: the result of the next future to
\* complete is collected, and the best INTERIM_TOP_N so far are stored when
\* INTERIM_EVERY more are scored
CollectFuture ==
  /\ pc = "scoring"
  /\ batch.futures # <<>>
  /\ \E db_up \in BOOLEAN :
       LET Collected(result_) ==
             LET match_results == collect_result(batch.match_results, result_)
                 scored_count == batch.scored_count + (IF result_ # None THEN 1 ELSE 0)
                 interim == result_ # None /\ scored_count >= INTERIM_TOP_N
                              /\ (scored_count - batch.last_interim_at) >= INTERIM_EVERY
                 interim_top == SubSeq(sorted_by_fit(match_results), 1, INTERIM_TOP_N)
                 rows == [i \in 1..Len(interim_top) |->
                            build_match_row(interim_top[i], batch.matched_at)]
             IN /\ batch' = [batch EXCEPT
                      !.futures = Tail(@),
                      !.match_results = match_results,
                      !.scored_count = scored_count,
                      !.failed_count = @ + (IF result_ = None THEN 1 ELSE 0),
                      !.last_interim_at = IF interim THEN scored_count ELSE @,
                      !.interim_stored =
                          IF interim /\ db_up
                          THEN {rows[i].investor_id : i \in 1..Len(rows)} ELSE @]
                /\ matches_table' = IF interim /\ db_up
                                    THEN upsert(matches_table, rows) ELSE matches_table
       IN Collected(match_single_investor(startup_obj,
                                          batch.investors[Head(batch.futures)], now))
  /\ UNCHANGED <<startup_obj, investor_obj, rubric, now, pc, edits, result, first_result,
                 max_tasks, tasks, llm, completed_tasks_file, overridden,
                 pipeline_status, pipeline_tasks>>

\* the rest of run_investor_matching once every future is collected: [] when
\* nothing was scored, else sort, keep max_matches, store them, ask for the
\* reasonings and return them
FinishMatching ==
  /\ pc = "scoring"
  /\ batch.futures = <<>>
  /\ pc' = "done"
  /\ IF batch.match_results = <<>>
     THEN /\ batch' = [batch EXCEPT !.returned = <<>>]
          /\ UNCHANGED matches_table
     ELSE \E db \in {"up", "delete_fails", "row_fails", "down"},
             custom_first \in BOOLEAN, answered \in BOOLEAN :
            LET top_matches == SubSeq(sorted_by_fit(batch.match_results), 1,
                                      Min2(batch.max_matches, Len(batch.match_results)))
                rows == [i \in 1..Len(top_matches) |->
                           build_match_row(top_matches[i], batch.matched_at)]
                Stored(st) ==
                  /\ matches_table' =
                       IF st.stored > 0
                       THEN generate_match_reasonings(st.table,
                                                      Min2(st.stored, REASONING_TOP_N),
                                                      custom_first, answered)
                       ELSE st.table
                  /\ batch' = [batch EXCEPT !.returned = top_matches,
                                            !.db = db,
                                            !.stored = st.stored]
            IN Stored(store_final(matches_table, rows, db))
  /\ UNCHANGED <<startup_obj, investor_obj, rubric, now, edits, result, first_result,
                 max_tasks, tasks, llm, completed_tasks_file, overridden,
                 pipeline_status, pipeline_tasks>>

NextBatch == CollectFuture \/ FinishMatching

SpecBatch == InitBatch /\ [][NextBatch]_vars


-----------------------------------------------------------------------------
(* Batch matching                                                          *)

\* the fetched investors whose future has been collected
CollectedInvestors ==
  {k \in 1..Len(batch.investors) : \A i \in 1..Len(batch.futures) : batch.futures[i] # k}

\* C22: in run_investor_matching a scoring that raises is confined to its
\* investor: it is counted as failed and left out, every other investor
\* collected has the result of its own scoring appended, and what is returned
\* are at most max_matches of the investors whose scoring succeeded, the fit
\* score never increasing.
C22_FailureIsolated ==
  [][/\ (pc = "scoring" /\ batch.futures # <<>>) =>
          LET alone == match_single_investor(startup_obj,
                                             batch.investors[Head(batch.futures)], now)
          IN /\ batch'.futures = Tail(batch.futures)
             /\ alone = None =>
                  /\ batch'.failed_count = batch.failed_count + 1
                  /\ batch'.scored_count = batch.scored_count
                  /\ batch'.match_results = batch.match_results
             /\ alone # None =>
                  /\ batch'.failed_count = batch.failed_count
                  /\ batch'.scored_count = batch.scored_count + 1
                  /\ batch'.match_results = Append(batch.match_results, alone)
     /\ (pc = "scoring" /\ pc' = "done") =>
          /\ CollectedInvestors = 1..Len(batch.investors)
          /\ batch.scored_count + batch.failed_count = Len(batch.investors)
          /\ batch.scored_count = Len(batch.match_results)
          /\ Len(batch'.returned) = Min2(batch.max_matches, batch.scored_count)
          /\ \A i \in 1..Len(batch'.returned) :
               /\ batch'.returned[i] =
                    match_single_investor(startup_obj,
                                          batch.investors[batch'.returned[i].investor_id.n],
                                          now)
               /\ \A j \in 1..Len(batch'.returned) :
                    i < j => /\ batch'.returned[i].investor_id # batch'.returned[j].investor_id
                             /\ batch'.returned[i].fit_score_0_to_100
                                  >= batch'.returned[j].fit_score_0_to_100
    ]_vars

\* a run of six investors, the second of which raised: the other five are
\* scored and the best three unequal ones returned
C22_Witness ==
  /\ pc = "done"
  /\ Len(batch.investors) = 6
  /\ batch.failed_count = 1
  /\ batch.scored_count = 5
  /\ batch.max_matches = 3
  /\ Len(batch.returned) = 3
  /\ batch.returned[1].fit_score_0_to_100 > batch.returned[3].fit_score_0_to_100


\* the rows of the table a run generated, and those the org added itself
GeneratedRows(table) == {r \in table : r.matching_version # "custom_added_v1"}
CustomRows(table) == {r \in table : r.matching_version = "custom_added_v1"}

\* C26: after run_investor_matching completes with at least one scored
\* investor, the generated rows of the org are exactly the final top matches:
\* no row of an interim store that is not among them is left, and the rows the
\* org added itself are as they were before the run.
C26_StoredExactlyTopN ==
  (pc = "done" /\ batch.scored_count >= 1) =>
    /\ {<<r.investor_id, r.fit_score_0_to_100, r.matched_at>> :
          r \in GeneratedRows(matches_table)}
         = {<<batch.returned[i].investor_id, batch.returned[i].fit_score_0_to_100,
              batch.matched_at>> : i \in 1..Len(batch.returned)}
    /\ \A id \in batch.interim_stored :
         (\A i \in 1..Len(batch.returned) : batch.returned[i].investor_id # id)
           => \A r \in matches_table : r.investor_id # id
    /\ CustomRows(matches_table) = CustomRows(batch.before)


-----------------------------------------------------------------------------
(* The worker pool of run_investor_matching                                *)
(*                                                                         *)
(* pool.submit(_match_single_investor, startup_profile, inv) hands every    *)
(* worker the same startup_profile dict.  A worker prepares its own thesis  *)
(* (its own data), then manual_match reads the shared profile twice: for    *)
(* the hard gates and for the six categories.  The workers interleave       *)
(* between these steps.                                                    *)

\* variant: manual_match leaves the stage of the investor it scored in the
\* startup profile it was given
profile_after_match_written(startup_obj_, investor_obj_) ==
  LET focus == Unwrap(investor_obj_, "investor").stage_focus_normalized
      stage == IF Truthy(focus) THEN S(focus.v[1]) ELSE None
  IN IF "startup" \in DOMAIN startup_obj_
     THEN SetKey(startup_obj_, "startup", SetKey(startup_obj_.startup, "stage_normalized", stage))
     ELSE SetKey(startup_obj_, "stage_normalized", stage)

\* what manual_match(startup_obj, investor_obj) leaves of the startup_obj it
\* was given: it binds and reads, and assigns to no key of it
profile_after_match(startup_obj_, investor_obj_) == startup_obj_

\* manual_match from the point where check_hard_gates has returned gates
manual_match_after_gates(startup_obj_, investor_obj_, gates, now_) ==
  LET Scored(result_) ==
        [result_ EXCEPT
           !.eligible = gates.eligible,
           !.gate_fail_reasons = gates.fails,
           !.fit_score_0_to_100 =
              fit_score_final(gates.eligible, result_.fit_score_if_eligible_0_to_100)]
  IN Scored(manual_match(startup_obj_, investor_obj_, None, now_))

\* the most investors the pool scores at once
MaxPooled == 3

InitWorkers ==
  /\ startup_obj \in {[startup |-> StartupMid,
                       metadata |-> [source_files |-> S("startup_kv.json")]],
                      [startup |-> StartupStrong,
                       metadata |-> [source_files |-> S("startup_kv.json")]]}
  /\ investor_obj = None
  /\ rubric = None
  /\ now = 1
  /\ pc = "pool"
  /\ edits = 0
  /\ result = None
  /\ first_result = None
  /\ max_tasks = DEFAULT_MAX_TASKS
  /\ tasks = <<>>
  /\ llm = None
  /\ completed_tasks_file = None
  /\ overridden = None
  /\ matches_table = None
  /\ pipeline_status = None
  /\ pipeline_tasks = None
  /\ \E failing \in {{}, {2}} :
       batch = [investors |-> FetchedInvestors(MaxPooled, failing),
                startup_profile |-> startup_obj,
                workers |-> [k \in 1..MaxPooled |->
                               [at |-> "submitted", investor |-> None, gates |-> None,
                                result |-> None, beside |-> {}]]]

\* a worker parses the thesis of its row and fills its defaults: its own data
WorkerPrepare(k) ==
  /\ pc = "pool"
  /\ batch.workers[k].at = "submitted"
  /\ LET Prepared(thesis) ==
           batch' = [batch EXCEPT !.workers[k] =
                       IF ~IsDict(thesis.investor)
                       THEN [@ EXCEPT !.at = "failed"]
                       ELSE [@ EXCEPT !.at = "filled",
                                      !.investor = fill_investor_defaults(thesis)]]
     IN Prepared(parse_investor_thesis(batch.investors[k]))
  /\ UNCHANGED <<startup_obj, investor_obj, rubric, now, pc, edits, result, first_result,
                 max_tasks, tasks, llm, completed_tasks_file, overridden,
                 matches_table, pipeline_status, pipeline_tasks>>

\* manual_match of a worker up to the return of check_hard_gates
WorkerGates(k) ==
  /\ pc = "pool"
  /\ batch.workers[k].at = "filled"
  /\ batch' = [batch EXCEPT !.workers[k] =
                 [@ EXCEPT !.at = "gated",
                           !.gates = check_hard_gates(Unwrap(startup_obj, "startup"),
                                                      Unwrap(batch.workers[k].investor,
                                                             "investor"))]]
  /\ UNCHANGED <<startup_obj, investor_obj, rubric, now, pc, edits, result, first_result,
                 max_tasks, tasks, llm, completed_tasks_file, overridden,
                 matches_table, pipeline_status, pipeline_tasks>>

\* the rest of manual_match and of _match_single_investor of a worker; beside
\* are the workers that are inside manual_match at that moment
WorkerScore(k) ==
  /\ pc = "pool"
  /\ batch.workers[k].at = "gated"
  /\ LET w == batch.workers[k]
         row == batch.investors[k]
         Tagged(result_) ==
           result_ @@ [investor_id |-> row.id,
                       investor_name |-> IF Truthy(row.investor_name)
                                         THEN row.investor_name ELSE S("Unknown"),
                       investor_profile |-> [id |-> row.id, name |-> row.investor_name]]
     IN /\ batch' = [batch EXCEPT !.workers[k] =
                       [@ EXCEPT !.at = "scored",
                                 !.result = Tagged(manual_match_after_gates(
                                                     startup_obj, w.investor, w.gates, now)),
                                 !.beside = {j \in 1..MaxPooled :
                                               j # k /\ batch.workers[j].at = "gated"}]]
        /\ startup_obj' = profile_after_match(startup_obj, w.investor)
  /\ UNCHANGED <<investor_obj, rubric, now, pc, edits, result, first_result,
                 max_tasks, tasks, llm, completed_tasks_file, overridden,
                 matches_table, pipeline_status, pipeline_tasks>>

NextWorkers == \E k \in 1..MaxPooled : WorkerPrepare(k) \/ WorkerGates(k) \/ WorkerScore(k)

SpecWorkers == InitWorkers /\ [][NextWorkers]_vars

-----------------------------------------------------------------------------
(* The investor pipeline status tracker of the backend                     *)
(*                                                                         *)
(* pipeline_status is the entry of one org in _pipeline_status: <<>> when   *)
(* the org has none, else one entry [status, started_at].  pipeline_tasks   *)
(* are the background tasks added for the org, in the order they were added.*)
(* The two endpoints are coroutines that never await, so each runs as one   *)
(* step of the event loop; the background tasks run on threads beside them. *)
(* now is time.time() in seconds.                                          *)

PIPELINE_TIMEOUT_SECS == 300

\* the most background tasks added for the org, and the last clock value
MaxPipelineTasks == 3
MaxClock == 900

\* _get_pipeline_status: the status of the org and what is left of
\* _pipeline_status; an entry older than PIPELINE_TIMEOUT_SECS is popped
get_pipeline_status(entries, now_) ==
  IF entries = <<>> THEN [status |-> "none", entries |-> entries]
  ELSE IF now_ - entries[1].started_at > PIPELINE_TIMEOUT_SECS
  THEN [status |-> "none", entries |-> <<>>]
  ELSE [status |-> entries[1].status, entries |-> entries]

\* _set_pipeline_status
set_pipeline_status(entries, status, now_) ==
  IF status \in {"ready", "error"} THEN <<>>
  ELSE <<[status |-> status, started_at |-> now_]>>

\* the tasks of the org that were added and have not ended
RunningTasks == {i \in 1..Len(pipeline_tasks) : pipeline_tasks[i].at # "ended"}

InitPipeline ==
  /\ startup_obj = None
  /\ investor_obj = None
  /\ rubric = None
  /\ now = 0
  /\ pc = "serving"
  /\ edits = 0
  /\ result = None
  /\ first_result = None
  /\ max_tasks = DEFAULT_MAX_TASKS
  /\ tasks = <<>>
  /\ llm = None
  /\ completed_tasks_file = None
  /\ overridden = None
  /\ batch = None
  /\ matches_table = None
  /\ pipeline_status = <<>>
  /\ pipeline_tasks = <<>>

\* a request to either endpoint: first is the status the endpoint sets before
\* it adds its task, enough tells whether get_investor_matches returned
\* max_matches rows or more
Endpoint(endpoint, first, enough) ==
  /\ pc = "serving"
  /\ Len(pipeline_tasks) < MaxPipelineTasks
  /\ LET Answered(current) ==
           IF current.status \in {"generating", "matching"}
           THEN /\ result' = [endpoint |-> endpoint, message |-> "already_running",
                              status |-> current.status, added |-> FALSE,
                              running |-> RunningTasks # {}]
                /\ pipeline_status' = current.entries
                /\ UNCHANGED pipeline_tasks
           ELSE IF enough
           THEN /\ result' = [endpoint |-> endpoint, message |-> "already_have",
                              status |-> "ready", added |-> FALSE,
                              running |-> RunningTasks # {}]
                /\ pipeline_status' = current.entries
                /\ UNCHANGED pipeline_tasks
           ELSE /\ result' = [endpoint |-> endpoint, message |-> "started",
                              status |-> first, added |-> TRUE,
                              running |-> RunningTasks # {}]
                /\ pipeline_status' = set_pipeline_status(current.entries, first, now)
                /\ pipeline_tasks' = Append(pipeline_tasks,
                                            [endpoint |-> endpoint, at |-> "added"])
     IN Answered(get_pipeline_status(pipeline_status, now))
  /\ UNCHANGED <<startup_obj, investor_obj, rubric, now, pc, edits, first_result,
                 max_tasks, tasks, llm, completed_tasks_file, overridden,
                 batch, matches_table>>

\* POST /api/trigger-investor-matching
trigger_investor_matching_endpoint ==
  \E enough \in BOOLEAN : Endpoint("trigger", "matching", enough)

\* POST /api/run-investor-pipeline
run_investor_pipeline_endpoint ==
  \E enough \in BOOLEAN : Endpoint("pipeline", "generating", enough)

\* _task of the trigger endpoint begins run_investor_matching
TaskBegin(i) ==
  /\ pipeline_tasks[i].endpoint = "trigger"
  /\ pipeline_tasks[i].at = "added"
  /\ pipeline_tasks' = [pipeline_tasks EXCEPT ![i].at = "matching"]
  /\ UNCHANGED <<startup_obj, investor_obj, rubric, now, pc, edits, result, first_result,
                 max_tasks, tasks, llm, completed_tasks_file, overridden,
                 batch, matches_table, pipeline_status>>

\* _pipeline_task up to its first long call: no Supabase client ends it in
\* error, a missing thesis profile sets "generating" anew, a profile at hand
\* sets "matching"
PipelineTaskBegin(i) ==
  /\ pipeline_tasks[i].endpoint = "pipeline"
  /\ pipeline_tasks[i].at = "added"
  /\ \E found \in {"no_client", "no_profile", "profile"} :
       LET status == CASE found = "no_client" -> "error"
                       [] found = "no_profile" -> "generating"
                       [] OTHER -> "matching"
       IN /\ pipeline_status' = set_pipeline_status(pipeline_status, status, now)
          /\ pipeline_tasks' = [pipeline_tasks EXCEPT
                                  ![i].at = IF status = "error" THEN "ended" ELSE status]
  /\ UNCHANGED <<startup_obj, investor_obj, rubric, now, pc, edits, result, first_result,
                 max_tasks, tasks, llm, completed_tasks_file, overridden,
                 batch, matches_table>>

\* generate_startup_thesis_profile returned or raised in _pipeline_task
PipelineTaskGenerated(i) ==
  /\ pipeline_tasks[i].at = "generating"
  /\ \E raised \in BOOLEAN :
       LET status == IF raised THEN "error" ELSE "matching"
       IN /\ pipeline_status' = set_pipeline_status(pipeline_status, status, now)
          /\ pipeline_tasks' = [pipeline_tasks EXCEPT
                                  ![i].at = IF raised THEN "ended" ELSE "matching"]
  /\ UNCHANGED <<startup_obj, investor_obj, rubric, now, pc, edits, result, first_result,
                 max_tasks, tasks, llm, completed_tasks_file, overridden,
                 batch, matches_table>>

\* run_investor_matching returned or raised in either task
TaskEnd(i) ==
  /\ pipeline_tasks[i].at = "matching"
  /\ \E status \in {"ready", "error"} :
       pipeline_status' = set_pipeline_status(pipeline_status, status, now)
  /\ pipeline_tasks' = [pipeline_tasks EXCEPT ![i].at = "ended"]
  /\ UNCHANGED <<startup_obj, investor_obj, rubric, now, pc, edits, result, first_result,
                 max_tasks, tasks, llm, completed_tasks_file, overridden,
                 batch, matches_table>>

\* time passes
Tick ==
  /\ pc = "serving"
  /\ now + PIPELINE_TIMEOUT_SECS \div 2 <= MaxClock
  /\ now' = now + PIPELINE_TIMEOUT_SECS \div 2
  /\ UNCHANGED <<startup_obj, investor_obj, rubric, pc, edits, result, first_result,
                 max_tasks, tasks, llm, completed_tasks_file, overridden,
                 batch, matches_table, pipeline_status, pipeline_tasks>>

NextPipeline ==
  \/ trigger_investor_matching_endpoint
  \/ run_investor_pipeline_endpoint
  \/ \E i \in 1..Len(pipeline_tasks) :
       \/ (pc = "serving" /\ TaskBegin(i))
       \/ (pc = "serving" /\ PipelineTaskBegin(i))
       \/ (pc = "serving" /\ PipelineTaskGenerated(i))
       \/ (pc = "serving" /\ TaskEnd(i))
  \/ Tick

SpecPipeline == InitPipeline /\ [][NextPipeline]_vars

\* C28: at most one investor-pipeline background task of the org runs at any
\* time: a request that arrives while a task added for the org has not ended
\* adds none and answers that the pipeline is already running, and the status
\* entry of the org is gone once its task has ended in ready or error.
C28_OneTaskAtATime ==
  pc = "serving" =>
    /\ Cardinality(RunningTasks) <= 1
    /\ (result # None /\ result.running) =>
         (~result.added /\ result.message = "already_running")
    /\ RunningTasks = {} => pipeline_status = <<>>

=============================================================================
